---- MODULE Spec2Model ----
(***************************************************************************)
(* Model of the Windows part of node-posix-ext: the identity resolver      *)
(* (getgrgid, getgrnam, getpwnam, getpwuid of posix-win.cc) and the file    *)
(* ownership adapter (getown, fgetown, chown, fchown of fs-win.cc) with the *)
(* JavaScript wrappers stat/lstat/chown of lib/posix-ext.js.               *)
(*                                                                         *)
(* Text is modelled as a sequence of one-character strings, so that the    *)
(* buffer arithmetic of the resolver ("domain\0account\0" turned into      *)
(* "domain\account") is computed and not assumed.  A SID is a sequence of  *)
(* numbers <<authority, sub-authority, ...>>; the text of a SID is a       *)
(* record [fmt, sub]: fmt "S" is the S-1-... form, fmt "BA" or "WD" an SDDL *)
(* constant, fmt "" the empty string, any other fmt is not a SID.          *)
(*                                                                         *)
(* One call is in flight at a time.  A resolver call in the blocking form   *)
(* runs to its return in one step of the calling thread; in the            *)
(* non-blocking form it is queued, executed on a worker thread and         *)
(* completed on the calling thread.  A file call advances by the native    *)
(* calls of its implementation, since the token of the process and the     *)
(* files are shared with whatever else runs between them.                  *)
(***************************************************************************)
EXTENDS Integers, Sequences, FiniteSets, TLC

\* ------------------------------------------------------------------------
\* native codes used by the sources

ERROR_SUCCESS == 0
ERROR_INVALID_FUNCTION == 1
ERROR_ACCESS_DENIED == 5
ERROR_WRITE_PROTECT == 19
ERROR_INSUFFICIENT_BUFFER == 122
ERROR_BAD_ARGUMENTS == 160
ERROR_NOT_ALL_ASSIGNED == 1300
ERROR_NO_SUCH_PRIVILEGE == 1313
ERROR_NONE_MAPPED == 1332
ERROR_INVALID_SID == 1337
ERROR_NO_SUCH_DOMAIN == 1355
RPC_S_SERVER_UNAVAILABLE == 1722
NERR_Success == 0
NERR_DCNotFound == 2453
DOMAIN_ALIAS_RID_ADMINS == 544

\* the largest number of members one enumeration returns in the model
MaxMembers == 2

\* ------------------------------------------------------------------------
\* text

NUL == "NUL"
BSL == "\\"

\* an absent pointer (NULL, an invalid wrapper) and a present text
Null == [valid |-> FALSE, s |-> <<>>]
Val(s) == [valid |-> TRUE, s |-> s]

LowerChar(c) ==
  CASE c = "A" -> "a" [] c = "B" -> "b" [] c = "C" -> "c" [] c = "D" -> "d"
    [] c = "E" -> "e" [] c = "I" -> "i" [] c = "L" -> "l" [] c = "M" -> "m"
    [] c = "N" -> "n" [] c = "O" -> "o" [] c = "P" -> "p" [] c = "R" -> "r"
    [] c = "S" -> "s" [] c = "T" -> "t" [] c = "U" -> "u" [] c = "Y" -> "y"
    [] OTHER -> c

Lower(s) == [i \in 1..Len(s) |-> LowerChar(s[i])]

\* _wcsicmp(a, b) == 0
wcsicmp_eq(a, b) == Lower(a) = Lower(b)

\* index of the first occurrence of c in s, 0 when there is none
RECURSIVE IndexFrom(_, _, _)
IndexFrom(s, c, i) ==
  IF i > Len(s) THEN 0
  ELSE IF s[i] = c THEN i
  ELSE IndexFrom(s, c, i + 1)

strchr(s, c) == IndexFrom(s, c, 1)

\* the zero-terminated text that starts at offset off (0-based) of a buffer
CStr(buf, off) ==
  LET rest == SubSeq(buf, off + 1, Len(buf))
      z == strchr(rest, NUL)
  IN  IF z = 0 THEN rest ELSE SubSeq(rest, 1, z - 1)

\* a buffer with the element at offset off (0-based) replaced by c
Poke(buf, off, c) == [i \in 1..Len(buf) |-> IF i = off + 1 THEN c ELSE buf[i]]

\* texts of the model
sPC == <<"P", "C">>
sPcLow == <<"p", "c">>
sCORP == <<"C", "O", "R", "P">>
sBUILTIN == <<"B", "U", "I", "L", "T", "I", "N">>
sNone == <<"N", "o", "n", "e">>
sUsers == <<"U", "s", "e", "r", "s">>
sAdm == <<"A", "d", "m">>
sStaff == <<"S", "t", "a", "f", "f">>
sAll == <<"A", "l", "l">>
sMed == <<"M", "e", "d">>
sML == <<"M", "L">>
sAmy == <<"a", "m", "y">>
sBob == <<"b", "o", "b">>
sX == <<"x">>

\* ------------------------------------------------------------------------
\* the accounts the security subsystem of the host knows

\* GetComputerNameW: the NetBIOS name of this computer
computer == sPC

Accounts ==
  { [sid |-> <<5, 21, 7, 513>>, use |-> "SidTypeGroup",
     domain |-> sPcLow, account |-> sNone],
    [sid |-> <<5, 32, 544>>, use |-> "SidTypeAlias",
     domain |-> sBUILTIN, account |-> sAdm],
    [sid |-> <<5, 21, 9, 513>>, use |-> "SidTypeGroup",
     domain |-> sCORP, account |-> sStaff],
    [sid |-> <<1, 0>>, use |-> "SidTypeWellKnownGroup",
     domain |-> <<>>, account |-> sAll],
    [sid |-> <<16, 8192>>, use |-> "SidTypeLabel",
     domain |-> sML, account |-> sMed],
    [sid |-> <<5, 21, 9>>, use |-> "SidTypeDomain",
     domain |-> sCORP, account |-> <<>>],
    [sid |-> <<5, 21, 7, 1001>>, use |-> "SidTypeUser",
     domain |-> sPC, account |-> sAmy],
    [sid |-> <<5, 21, 9, 1101>>, use |-> "SidTypeUser",
     domain |-> sCORP, account |-> sBob] }

\* a well-formed SID that no account has
UnmappedSid == <<5, 21, 7, 999>>

Sids == {a.sid : a \in Accounts} \cup {UnmappedSid}

\* ConvertSidToStringSid: the S-1-... text of a SID
ConvertSidToStringSid(sid) == [fmt |-> "S", sub |-> sid]

\* ConvertStringSidToSid: accepts the S-1-... text and the SDDL constants;
\* ok is FALSE (last error ERROR_INVALID_SID) for any other text
ConvertStringSidToSid(text) ==
  CASE text.fmt = "S" -> [ok |-> TRUE, sid |-> text.sub]
    [] text.fmt = "BA" -> [ok |-> TRUE, sid |-> <<5, 32, 544>>]
    [] text.fmt = "WD" -> [ok |-> TRUE, sid |-> <<1, 0>>]
    [] OTHER -> [ok |-> FALSE, sid |-> <<>>]

EmptyText == [fmt |-> "", sub |-> <<>>]
JunkText == [fmt |-> "zz", sub |-> <<>>]
NullText == [fmt |-> "NULL", sub |-> <<>>]

\* the texts passed as gid or uid to the resolver
SidTexts ==
  {ConvertSidToStringSid(s) : s \in Sids}
    \cup {[fmt |-> "BA", sub |-> <<>>], [fmt |-> "WD", sub |-> <<>>], JunkText}

\* the names passed to the resolver
NameInputs ==
  { sNone, sPC \o <<BSL>> \o sNone, sBUILTIN \o <<BSL>> \o sAdm,
    Lower(sStaff), sCORP \o <<BSL>> \o sStaff, sAll, sAmy,
    sCORP \o <<BSL>> \o sBob, sCORP, <<"n", "o">> }

\* the "domain" and the "account" of a name "domain\account" or "account"
NameDomain(name) ==
  LET b == strchr(name, BSL) IN IF b = 0 THEN <<>> ELSE SubSeq(name, 1, b - 1)

NameAccount(name) ==
  LET b == strchr(name, BSL)
  IN  IF b = 0 THEN name ELSE SubSeq(name, b + 1, Len(name))

\* the accounts LookupAccountNameW finds for a name: names compare without
\* case; an isolated name is searched in every domain, and the name of a
\* domain alone names the domain
NameMatches(name) ==
  { a \in Accounts :
      IF strchr(name, BSL) # 0
      THEN /\ wcsicmp_eq(NameAccount(name), a.account)
           /\ wcsicmp_eq(NameDomain(name), a.domain)
      ELSE \/ a.account # <<>> /\ wcsicmp_eq(name, a.account)
           \/ a.account = <<>> /\ wcsicmp_eq(name, a.domain) }

SidMatches(sid) == {a \in Accounts : a.sid = sid}

\* the members the enumeration calls report, by position
DomainMember(i) == IF i % 2 = 1 THEN sBob ELSE sCORP \o <<BSL>> \o sAmy
LocalMember(i) ==
  IF i % 2 = 1 THEN sPC \o <<BSL>> \o sAmy ELSE sCORP \o <<BSL>> \o sBob

\* ------------------------------------------------------------------------
\* outcomes of the native calls of one resolution: the step at which a
\* lookup fails and its code, and the codes of the directory calls

Faults ==
  {"none", "nameProbeOk", "nameProbe", "nameLookup",
   "sidProbeOk", "sidProbe", "sidLookup", "computerName"}

GroupOracles ==
  [fault : Faults,
   code : {ERROR_NONE_MAPPED, RPC_S_SERVER_UNAVAILABLE},
   dc : {NERR_Success, NERR_DCNotFound, ERROR_NO_SUCH_DOMAIN},
   enum : {NERR_Success, ERROR_ACCESS_DENIED, RPC_S_SERVER_UNAVAILABLE},
   read : 0..MaxMembers]

UserOracles ==
  [fault : Faults,
   code : {ERROR_NONE_MAPPED, RPC_S_SERVER_UNAVAILABLE},
   dc : {NERR_Success, NERR_DCNotFound, ERROR_NO_SUCH_DOMAIN},
   uinfo : {NERR_Success, ERROR_ACCESS_DENIED, RPC_S_SERVER_UNAVAILABLE},
   rid : {513, 543, 544, 545},
   password : BOOLEAN]

\* HeapStrUtf8ToWide, HeapStrWideToUtf8 and HeapStrDup: a copy of the text
\* in the other encoding, character by character
HeapStrUtf8ToWide(s) == Val(s)
HeapStrWideToUtf8(s) == Val(s)
HeapStrDup(s) == Val(s)
LocalStrDup(text) == text

\* resolves the account name to its SID
resolve_name(name, o) ==
  LET wname == HeapStrUtf8ToWide(name)
      found == NameMatches(wname.s)
      probe ==
        IF o.fault = "nameProbe" THEN o.code
        ELSE IF found = {} THEN ERROR_NONE_MAPPED
        ELSE ERROR_INSUFFICIENT_BUFFER
  IN  IF o.fault = "nameProbeOk"
      THEN [error |-> ERROR_INVALID_FUNCTION, sid |-> <<>>]
      ELSE IF probe # ERROR_INSUFFICIENT_BUFFER
      THEN [error |-> probe, sid |-> <<>>]
      ELSE IF o.fault = "nameLookup"
      THEN [error |-> o.code, sid |-> <<>>]
      ELSE [error |-> ERROR_SUCCESS, sid |-> (CHOOSE a \in found : TRUE).sid]

\* what the two calls of LookupAccountSidW of a resolution give: the code
\* of the size probe, then the code and the data of the lookup
LookupAccountSidW(sid, o) ==
  LET found == SidMatches(sid)
      a == IF found = {}
           THEN [sid |-> sid, use |-> "SidTypeUnknown",
                 domain |-> <<>>, account |-> <<>>]
           ELSE CHOOSE x \in found : TRUE
  IN  [probeOk |-> o.fault = "sidProbeOk",
       probe |-> IF o.fault = "sidProbe" THEN o.code
                 ELSE IF found = {} THEN ERROR_NONE_MAPPED
                 ELSE ERROR_INSUFFICIENT_BUFFER,
       error |-> IF o.fault = "sidLookup" THEN o.code ELSE ERROR_SUCCESS,
       use |-> a.use, domain |-> a.domain, account |-> a.account]

\* what a resolution records of the native calls it made: the code of the
\* lookup step that failed, the type and the names the lookup reported, the
\* codes of the directory calls (-1: not called), the name composed
NoTrace ==
  [lookup |-> -1, sid |-> <<>>, use |-> "none", domain |-> <<>>,
   account |-> <<>>, dc |-> -1,
   server |-> FALSE, listing |-> "none", listed |-> -1, uinfo |-> -1,
   rid |-> -1, composed |-> FALSE]

\* ------------------------------------------------------------------------
\* group_t and user_t: every member is an absent or a present value

NoMembers == [valid |-> FALSE, s |-> <<>>]

EmptyGroup ==
  [gid |-> NullText, name |-> Null, passwd |-> Null, members |-> NoMembers]

EmptyUser ==
  [uid |-> NullText, gid |-> NullText, name |-> Null, passwd |-> Null,
   gecos |-> Null, shell |-> Null, dir |-> Null]

\* the type check of the group resolution with the user type let through
GroupUses_WithUser ==
  {"SidTypeGroup", "SidTypeAlias", "SidTypeLabel", "SidTypeWellKnownGroup",
   "SidTypeUser"}

GroupUses ==
  {"SidTypeGroup", "SidTypeAlias", "SidTypeLabel", "SidTypeWellKnownGroup"}

\* the buffer "domain\0account\0" the lookup fills, and the one the alias
\* rule builds from the computer name and "Users"
NameBuffer(domain, account) == domain \o <<NUL>> \o account \o <<NUL>>

\* the rule of the local Users group: "<computer>\None" is "<computer>\Users"
IsLocalNone(accountpart, domainpart) ==
  wcsicmp_eq(accountpart, sNone) /\ wcsicmp_eq(domainpart, computer)

\* the group is asked about at the domain controller
IsDomainScoped(szdomain, domainpart) ==
  /\ szdomain > 0
  /\ ~wcsicmp_eq(domainpart, sBUILTIN)
  /\ ~wcsicmp_eq(domainpart, computer)

\* "<domain>\<account>" made in place: the zero that ends the domain becomes
\* a backslash, or the account moves to the front when there is no domain
ComposeName(buf, szdomain, accountOff, szaccount) ==
  IF szdomain > 0
  THEN CStr(Poke(buf, szdomain, BSL), 0)
  ELSE CStr(SubSeq(buf, accountOff + 1, accountOff + szaccount + 1), 0)

\* a member name of a domain group, with the domain of the group put before
\* a name that has none
QualifyMember(member, szdomain, domain) ==
  IF szdomain = 0 \/ strchr(member, BSL) # 0
  THEN member
  ELSE domain \o <<BSL>> \o member

\* the discovery of the domain controller with "not found" as a failure
DiscoveryFails_NotFoundIsFatal(code) == code # NERR_Success

\* the discovery of the domain controller ends the resolution: any code but
\* success and "domain controller not found"
DiscoveryFails(code) == code # NERR_Success /\ code # NERR_DCNotFound

\* an enumeration or a profile the caller may not read is not an error
DeniedIsEmpty(error) == error = ERROR_ACCESS_DENIED

\* the enumeration made whatever the option says
ShallEnumerate_IgnoresOption(populateGroupMembers, use) ==
  use \in {"SidTypeGroup", "SidTypeAlias"}

\* the members wanted from the directory
ShallEnumerate(populateGroupMembers, use) ==
  populateGroupMembers /\ use \in {"SidTypeGroup", "SidTypeAlias"}

\* what the lookup of the SID reported, as the resolution records it
LookedUp(sid, look) ==
  [NoTrace EXCEPT !.sid = sid, !.use = look.use,
                  !.domain = look.domain, !.account = look.account]

\* the buffer with the domain and the account parts and their lengths, as
\* the lookup filled it or as the rule of the local Users group rebuilt it
AccountBuffer(domain, account) ==
  IF IsLocalNone(account, domain)
  THEN [buf |-> NameBuffer(computer, sUsers),
        szdomain |-> Len(computer), szaccount |-> 5]
  ELSE [buf |-> NameBuffer(domain, account),
        szdomain |-> Len(domain), szaccount |-> Len(account)]

\* the members an enumeration returned, as the resolution stores them
Members(read, wserver, szdomain, domainpart, none) ==
  IF read > 0
  THEN [valid |-> TRUE,
        s |-> [i \in 1..read |->
                 IF wserver
                 THEN QualifyMember(DomainMember(i), szdomain,
                                    HeapStrWideToUtf8(domainpart).s)
                 ELSE HeapStrWideToUtf8(LocalMember(i)).s]]
  ELSE none

\* resolve_group from the discovery of the domain controller on: the
\* enumeration of the members, then the name and the passwd
resolve_group_members(g1, t1, o, n, enumerate, scoped) ==
  LET wserver == scoped /\ o.dc = NERR_Success
      t2 == [t1 EXCEPT !.dc = IF scoped THEN o.dc ELSE -1,
                       !.server = wserver]
      t3 == [t2 EXCEPT !.listing = IF wserver THEN "domain" ELSE "local",
                       !.listed = o.enum]
  IN  IF scoped /\ DiscoveryFails(o.dc)
      THEN [error |-> o.dc, group |-> g1, t |-> t2]
      ELSE IF enumerate /\ DeniedIsEmpty(o.enum)
      THEN [error |-> ERROR_SUCCESS, group |-> g1, t |-> t3]
      ELSE IF enumerate /\ o.enum # NERR_Success
      THEN [error |-> o.enum, group |-> g1, t |-> t3]
      ELSE [error |-> ERROR_SUCCESS,
            group |->
              [g1 EXCEPT
                 !.members =
                   IF enumerate
                   THEN Members(o.read, wserver, n.szdomain,
                                CStr(n.buf, 0), g1.members)
                   ELSE g1.members,
                 !.name = HeapStrWideToUtf8(
                            ComposeName(n.buf, n.szdomain, n.szdomain + 1,
                                        n.szaccount)),
                 !.passwd = HeapStrDup(sX)],
            t |-> [(IF enumerate THEN t3 ELSE t2) EXCEPT !.composed = TRUE]]

\* resolve_group at the choice of the server: the domain controller for a
\* group of a domain, this computer otherwise
resolve_group_scope(g1, t1, o, n, enumerate) ==
  resolve_group_members(
    g1, t1, o, n, enumerate,
    enumerate /\ IsDomainScoped(n.szdomain, CStr(n.buf, 0)))

\* resolve_group from the lookup of the SID on: the type check, the name
\* of the computer, the rule of the local Users group
resolve_group_account(g1, gsid, populateGroupMembers, o, look) ==
  IF look.probeOk
  THEN [error |-> ERROR_INVALID_FUNCTION, group |-> g1, t |-> NoTrace]
  ELSE IF look.probe # ERROR_INSUFFICIENT_BUFFER
  THEN [error |-> look.probe, group |-> g1,
        t |-> [NoTrace EXCEPT !.lookup = look.probe]]
  ELSE IF look.error # ERROR_SUCCESS
  THEN [error |-> look.error, group |-> g1,
        t |-> [NoTrace EXCEPT !.lookup = look.error]]
  ELSE IF look.use \notin GroupUses
  THEN [error |-> ERROR_BAD_ARGUMENTS, group |-> g1,
        t |-> LookedUp(gsid, look)]
  ELSE IF o.fault = "computerName"
  THEN [error |-> o.code, group |-> g1, t |-> LookedUp(gsid, look)]
  ELSE resolve_group_scope(
         g1, LookedUp(gsid, look), o,
         AccountBuffer(look.domain, look.account),
         ShallEnumerate(populateGroupMembers, look.use))

\* completes the group information using the SID
resolve_group(group, gsid, populateGroupMembers, o) ==
  resolve_group_account([group EXCEPT !.gid = ConvertSidToStringSid(gsid)],
                        gsid, populateGroupMembers, o,
                        LookupAccountSidW(gsid, o))

\* the alias branch taken above the threshold only
PrimaryGroupSid_AboveThreshold(usid, rid) ==
  IF rid > DOMAIN_ALIAS_RID_ADMINS
  THEN <<5, 32, rid>>
  ELSE [usid EXCEPT ![Len(usid)] = rid]

\* the SID of the primary group of a user from the relative id of the profile
PrimaryGroupSid(usid, rid) ==
  IF rid >= DOMAIN_ALIAS_RID_ADMINS
  THEN <<5, 32, rid>>
  ELSE [usid EXCEPT ![Len(usid)] = rid]

\* the user is asked about at the domain controller
NeedsController(domainpart) == ~wcsicmp_eq(domainpart, computer)

\* resolve_user from the discovery of the domain controller on: the
\* profile of the user, then the name and the other members
resolve_user_profile(u1, t1, usid, o, look, scoped) ==
  LET wserver == scoped /\ o.dc = NERR_Success
      t2 == [t1 EXCEPT !.dc = IF scoped THEN o.dc ELSE -1,
                       !.server = wserver]
      t3 == [t2 EXCEPT !.uinfo = o.uinfo]
  IN  IF scoped /\ DiscoveryFails(o.dc)
      THEN [error |-> o.dc, user |-> u1, t |-> t2]
      ELSE IF DeniedIsEmpty(o.uinfo)
      THEN [error |-> ERROR_SUCCESS, user |-> u1, t |-> t3]
      ELSE IF o.uinfo # NERR_Success
      THEN [error |-> o.uinfo, user |-> u1, t |-> t3]
      ELSE [error |-> ERROR_SUCCESS,
            user |->
              [u1 EXCEPT
                 !.name = HeapStrWideToUtf8(
                            ComposeName(NameBuffer(look.domain, look.account),
                                        Len(look.domain), Len(look.domain) + 1,
                                        Len(look.account))),
                 !.gid = ConvertSidToStringSid(PrimaryGroupSid(usid, o.rid)),
                 !.passwd = HeapStrWideToUtf8(
                              IF o.password THEN <<"p", "w">> ELSE sX),
                 !.gecos = HeapStrWideToUtf8(Lower(look.account)),
                 !.shell = HeapStrWideToUtf8(<<>>),
                 !.dir = HeapStrWideToUtf8(<<>>)],
            t |-> [t3 EXCEPT !.rid = o.rid, !.composed = TRUE]]

\* resolve_user from the lookup of the SID on: the type check and the name
\* of the computer
resolve_user_account(u1, usid, o, look) ==
  IF look.probeOk
  THEN [error |-> ERROR_INVALID_FUNCTION, user |-> u1, t |-> NoTrace]
  ELSE IF look.probe # ERROR_INSUFFICIENT_BUFFER
  THEN [error |-> look.probe, user |-> u1,
        t |-> [NoTrace EXCEPT !.lookup = look.probe]]
  ELSE IF look.error # ERROR_SUCCESS
  THEN [error |-> look.error, user |-> u1,
        t |-> [NoTrace EXCEPT !.lookup = look.error]]
  ELSE IF look.use # "SidTypeUser"
  THEN [error |-> ERROR_BAD_ARGUMENTS, user |-> u1,
        t |-> LookedUp(usid, look)]
  ELSE IF o.fault = "computerName"
  THEN [error |-> o.code, user |-> u1, t |-> LookedUp(usid, look)]
  ELSE resolve_user_profile(
         u1, LookedUp(usid, look), usid, o, look,
         NeedsController(CStr(NameBuffer(look.domain, look.account), 0)))

\* completes the user information using the SID
resolve_user(user, usid, o) ==
  resolve_user_account([user EXCEPT !.uid = ConvertSidToStringSid(usid)],
                       usid, o, LookupAccountSidW(usid, o))

\* ------------------------------------------------------------------------
\* the four operations of the resolver

\* the end of a lookup by name that failed, and the resolution of the SID
\* it found
getgrnam_resolved(group, populateGroupMembers, o, r) ==
  IF r.error # ERROR_SUCCESS
  THEN [error |-> r.error, group |-> group,
        t |-> [NoTrace EXCEPT !.lookup = r.error]]
  ELSE resolve_group(group, r.sid, populateGroupMembers, o)

getpwnam_resolved(user, o, r) ==
  IF r.error # ERROR_SUCCESS
  THEN [error |-> r.error, user |-> user,
        t |-> [NoTrace EXCEPT !.lookup = r.error]]
  ELSE resolve_user(user, r.sid, o)

getgrgid_impl(group, populateGroupMembers, o) ==
  IF ~ConvertStringSidToSid(group.gid).ok
  THEN [error |-> ERROR_INVALID_SID, group |-> group, t |-> NoTrace]
  ELSE resolve_group([group EXCEPT !.gid = NullText],
                     ConvertStringSidToSid(group.gid).sid,
                     populateGroupMembers, o)

getgrnam_impl(group, populateGroupMembers, o) ==
  getgrnam_resolved(group, populateGroupMembers, o,
                    resolve_name(group.name.s, o))

getpwnam_impl(user, o) ==
  getpwnam_resolved(user, o, resolve_name(user.name.s, o))

getpwuid_impl(user, o) ==
  IF ~ConvertStringSidToSid(user.uid).ok
  THEN [error |-> ERROR_INVALID_SID, user |-> user, t |-> NoTrace]
  ELSE resolve_user([user EXCEPT !.uid = NullText],
                    ConvertStringSidToSid(user.uid).sid, o)

\* ------------------------------------------------------------------------
\* JavaScript values: undefined, a group record, a user record, a crash of
\* the conversion; a property that is not set is an absent value

Undefined ==
  [t |-> "undefined", name |-> Null, passwd |-> Null, uid |-> NullText,
   gid |-> NullText, gecos |-> Null, shell |-> Null, dir |-> Null,
   members |-> <<>>]

Crash == [Undefined EXCEPT !.t = "crash"]

\* converts an object with the group information to the JavaScript result
convert_group(group) ==
  [Undefined EXCEPT
     !.t = "group", !.name = group.name, !.passwd = group.passwd,
     !.gid = group.gid,
     !.members = IF group.members.valid THEN group.members.s ELSE <<>>]

\* converts an object with the user information to the JavaScript result
convert_user(user) ==
  [Undefined EXCEPT
     !.t = "user", !.name = user.name, !.passwd = user.passwd,
     !.uid = user.uid, !.gid = user.gid, !.gecos = user.gecos,
     !.shell = user.shell, !.dir = user.dir]

\* New<String> of the name: the name is read without a check, and the read
\* of an absent name goes through a null pointer, which stops the process
NewName(v) == IF v.name.valid THEN {v} ELSE {Crash}

\* the blocking call with "none mapped" thrown as any other code
SyncOutcomes_NoneMappedThrows(error, v) ==
  IF error # ERROR_SUCCESS
  THEN {[kind |-> "throw", error |-> error, val |-> Undefined]}
  ELSE {[kind |-> IF x.t = "crash" THEN "crash" ELSE "return",
         error |-> ERROR_SUCCESS, val |-> x] : x \in NewName(v)}

\* the end of a blocking call: undefined for "none mapped", a thrown error
\* for any other code, the record otherwise
SyncOutcomes(error, v) ==
  IF error = ERROR_NONE_MAPPED
  THEN {[kind |-> "return", error |-> ERROR_SUCCESS, val |-> Undefined]}
  ELSE IF error # ERROR_SUCCESS
  THEN {[kind |-> "throw", error |-> error, val |-> Undefined]}
  ELSE {[kind |-> IF x.t = "crash" THEN "crash" ELSE "return",
         error |-> ERROR_SUCCESS, val |-> x] : x \in NewName(v)}

\* the callback with "none mapped" passed as any other code
CallbackOutcomes_NoneMappedIsError(error, v) ==
  IF error # ERROR_SUCCESS
  THEN {[kind |-> "callback", error |-> error, val |-> Undefined]}
  ELSE {[kind |-> IF x.t = "crash" THEN "crash" ELSE "callback",
         error |-> ERROR_SUCCESS, val |-> x] : x \in NewName(v)}

\* HandleOKCallback: (null, undefined) for "none mapped", (error) for any
\* other code, (null, record) otherwise
CallbackOutcomes(error, v) ==
  IF error = ERROR_NONE_MAPPED
  THEN {[kind |-> "callback", error |-> ERROR_SUCCESS, val |-> Undefined]}
  ELSE IF error # ERROR_SUCCESS
  THEN {[kind |-> "callback", error |-> error, val |-> Undefined]}
  ELSE {[kind |-> IF x.t = "crash" THEN "crash" ELSE "callback",
         error |-> ERROR_SUCCESS, val |-> x] : x \in NewName(v)}

NoOutcome == [kind |-> "none", error |-> ERROR_SUCCESS, val |-> Undefined]

\* ------------------------------------------------------------------------
\* the arguments of a call of a native entry point: the type of each value

ArgTypes == {"string", "int32", "undefined", "function"}

\* the arguments after the last one an entry point takes that are tried
MaxExtra == 1

NativeOps ==
  {"getgrgid", "getgrnam", "getpwnam", "getpwuid",
   "getown", "fgetown", "chown", "fchown"}

\* the native entry point behind an operation of the file module
Native(op) ==
  CASE op \in {"stat", "lstat"} -> "getown"
    [] op = "fstat" -> "fgetown"
    [] OTHER -> op

\* the most arguments an entry point takes; the last one is the callback
MaxArgc(op) == IF op \in {"chown", "fchown"} THEN 4 ELSE 2

\* the type of the first argument: a descriptor or a text
IdType(op) == IF op \in {"fgetown", "fchown"} THEN "int32" ELSE "string"

\* the identifiers of an entry point with the types it accepts
AcceptedIds(op) ==
  {a \in [1..(MaxArgc(op) - 1) -> ArgTypes] :
     /\ a[1] = IdType(op)
     /\ \A i \in 2..Len(a) : a[i] \in {"string", "undefined"}}

\* the argument lists tried: the accepted identifiers, alone or with the
\* last ones missing, with one of them of any type, or followed by a value
\* of any type at the place of the callback and by extra values
ArgLists(op) ==
  {SubSeq(p, 1, k) : p \in AcceptedIds(op), k \in 0..(MaxArgc(op) - 1)}
    \cup {[p EXCEPT ![i] = t] :
            p \in AcceptedIds(op), i \in 1..(MaxArgc(op) - 1),
            t \in ArgTypes}
    \cup {p \o <<c>> \o [j \in 1..k |-> "undefined"] :
            p \in AcceptedIds(op), c \in ArgTypes, k \in 0..MaxExtra}

\* info[i - 1]->IsFunction() and ->IsUndefined(): a value past the end of
\* the arguments is undefined
IsFunction(args, i) == i <= Len(args) /\ args[i] = "function"
IsUndefinedArg(args, i) == i > Len(args) \/ args[i] = "undefined"
IsStringOrUndefined(args, i) ==
  IsUndefinedArg(args, i) \/ args[i] = "string"

\* the checks of an entry point with one identifier, without the check of
\* the number of arguments
ValidateOne_NoArityCheck(args, idtype) ==
  IF Len(args) < 1 THEN "required"
  ELSE IF args[1] # idtype THEN "type"
  ELSE IF Len(args) > 1 /\ ~IsFunction(args, 2)
  THEN "callback must be a function"
  ELSE "ok"

\* the checks of an entry point with one identifier and a callback
ValidateOne(args, idtype) ==
  IF Len(args) < 1 THEN "required"
  ELSE IF Len(args) > 2 THEN "too many arguments"
  ELSE IF args[1] # idtype THEN "type"
  ELSE IF Len(args) > 1 /\ ~IsFunction(args, 2)
  THEN "callback must be a function"
  ELSE "ok"

\* the checks of chown and fchown
ValidateOwner(args, idtype) ==
  IF Len(args) < 1 THEN "required"
  ELSE IF Len(args) > 4 THEN "too many arguments"
  ELSE IF args[1] # idtype THEN "type"
  ELSE IF Len(args) < 2 THEN "uid required"
  ELSE IF ~IsStringOrUndefined(args, 2) THEN "uid type"
  ELSE IF Len(args) < 3 THEN "gid required"
  ELSE IF ~IsStringOrUndefined(args, 3) THEN "gid type"
  ELSE IF Len(args) > 3 /\ ~IsFunction(args, 4)
  THEN "callback must be a function"
  ELSE IF IsUndefinedArg(args, 2) /\ IsUndefinedArg(args, 3)
  THEN "either uid or gid must be defined"
  ELSE "ok"

\* the checks an entry point makes of its arguments: "ok", or the reason
\* of the TypeError
Validate(op, args) ==
  IF op \in {"chown", "fchown"}
  THEN ValidateOwner(args, IdType(op))
  ELSE ValidateOne(args, IdType(op))

NoInfo == [op |-> "none", args |-> <<>>]

\* the TypeError an entry point throws for its arguments
TypeError == [kind |-> "typeerror", error |-> ERROR_SUCCESS, val |-> Undefined]

\* ------------------------------------------------------------------------
\* file ownership: the files, the token of the process and its privileges

Files == {"a", "b"}

\* names[] of SetPrivileges
Privileges ==
  {"SeTakeOwnershipPrivilege", "SeSecurityPrivilege",
   "SeBackupPrivilege", "SeRestorePrivilege"}

\* the privileges the token of the caller may have: all four (an
\* administrator), two of them (a backup operator), none
Tokens == {Privileges, {"SeBackupPrivilege", "SeRestorePrivilege"}, {}}

\* the privileges a change of the owner and the group of a file asks for
NeededToSet == {"SeTakeOwnershipPrivilege", "SeRestorePrivilege"}

\* uid and gid as passed to chown and fchown; undefined arrives as ""
UidInputs ==
  {EmptyText, ConvertSidToStringSid(<<5, 21, 7, 1001>>),
   [fmt |-> "BA", sub |-> <<>>], JunkText}
GidInputs ==
  {EmptyText, ConvertSidToStringSid(<<5, 21, 7, 513>>), JunkText}

WriteOps == {"chown", "fchown"}
ReadOps == {"stat", "lstat", "fstat"}

\* the faults of the native calls of Enable, and the codes a security
\* update and a security query end with
EnableFaults == {"none", "open", "lookup", "adjust"}
UpdateCodes == {ERROR_SUCCESS, ERROR_WRITE_PROTECT}
QueryCodes == {ERROR_SUCCESS, ERROR_ACCESS_DENIED}

NoWrite == [set |-> FALSE, uid |-> EmptyText, gid |-> EmptyText]

\* the call in flight: arguments, locals of the implementation (usid, gsid,
\* the member enabled of takingOwhership, error), the last-error value of
\* its thread; adjust, updates, update, turnedOn, before and expect record
\* what the call did: the end of the privilege adjustment, the number of
\* security updates called and the code the update returned (-1: none), the
\* privileges the call switched on, the ownership when the call started,
\* the last successful write when the ownership was read
NoCall ==
  [op |-> "none", mode |-> "none", path |-> "none",
   uid |-> EmptyText, gid |-> EmptyText, usid |-> <<>>, gsid |-> <<>>,
   enabled |-> FALSE, error |-> ERROR_SUCCESS, lastError |-> ERROR_SUCCESS,
   adjust |-> "none", updates |-> 0, update |-> -1, turnedOn |-> {},
   before |-> <<>>, expect |-> NoWrite,
   susid |-> NullText, sgsid |-> NullText]

\* AdjustTokenPrivileges for the four privileges: the privileges the token
\* has are switched, and the last error tells whether that was all of them
AdjustTokenPrivileges(token, held, enable) ==
  [token |-> IF enable THEN token \cup held ELSE token \ Privileges,
   lastError |-> IF Privileges \subseteq held
                 THEN ERROR_SUCCESS ELSE ERROR_NOT_ALL_ASSIGNED]

\* SetPrivileges with "not all assigned" taken as a success
SetPrivileges_NotAllIsSuccess(enable, token, held, fault) ==
  IF fault = "lookup"
  THEN [ret |-> FALSE, token |-> token,
        lastError |-> ERROR_NO_SUCH_PRIVILEGE, adjust |-> "none"]
  ELSE IF fault = "adjust"
  THEN [ret |-> FALSE, token |-> token,
        lastError |-> ERROR_ACCESS_DENIED, adjust |-> "failed"]
  ELSE LET r == AdjustTokenPrivileges(token, held, enable)
       IN  [ret |-> TRUE, token |-> r.token, lastError |-> r.lastError,
            adjust |-> IF r.lastError = ERROR_NOT_ALL_ASSIGNED
                       THEN "partial" ELSE "ok"]

\* SetPrivileges: FALSE when a privilege is not found, when the adjustment
\* fails and when it reports that not all privileges were assigned
SetPrivileges(enable, token, held, fault) ==
  IF fault = "lookup"
  THEN [ret |-> FALSE, token |-> token,
        lastError |-> ERROR_NO_SUCH_PRIVILEGE, adjust |-> "none"]
  ELSE IF fault = "adjust"
  THEN [ret |-> FALSE, token |-> token,
        lastError |-> ERROR_ACCESS_DENIED, adjust |-> "failed"]
  ELSE LET r == AdjustTokenPrivileges(token, held, enable)
       IN  IF r.lastError = ERROR_NOT_ALL_ASSIGNED
           THEN [ret |-> FALSE, token |-> r.token,
                 lastError |-> ERROR_NOT_ALL_ASSIGNED, adjust |-> "partial"]
           ELSE [ret |-> TRUE, token |-> r.token,
                 lastError |-> r.lastError, adjust |-> "ok"]

\* TakingOwhership::Enable: enabled is set only when every step succeeded
Enable(c, token, held, fault) ==
  IF fault = "open"
  THEN [error |-> ERROR_ACCESS_DENIED, token |-> token,
        c |-> [c EXCEPT !.lastError = ERROR_ACCESS_DENIED]]
  ELSE LET r == SetPrivileges(TRUE, token, held, fault)
       IN  [error |-> IF r.ret THEN ERROR_SUCCESS ELSE r.lastError,
            token |-> r.token,
            c |-> [c EXCEPT !.enabled = r.ret, !.lastError = r.lastError,
                            !.adjust = r.adjust,
                            !.turnedOn = r.token \ token]]

\* TakingOwhership::Disable: acts only when enabled is set
Disable(c, token, held) ==
  IF c.enabled
  THEN LET r == SetPrivileges(FALSE, token, held, "none")
       IN  IF r.ret
           THEN [error |-> ERROR_SUCCESS, token |-> r.token,
                 c |-> [c EXCEPT !.enabled = FALSE,
                                 !.lastError = r.lastError]]
           ELSE [error |-> r.lastError, token |-> r.token,
                 c |-> [c EXCEPT !.lastError = r.lastError]]
  ELSE [error |-> ERROR_SUCCESS, token |-> token, c |-> c]

\* makes a JavaScript result object literal of user and group SIDs
convert_ownership(uid, gid) ==
  [Undefined EXCEPT !.t = "ownership", !.uid = uid, !.gid = gid]

\* ------------------------------------------------------------------------
\* paths and symbolic links.  A path is a sequence of parts: a separator, a
\* drive, "." and "..", or a name

IsSep(t) == t \in {"/", "\\"}
IsDrive(t) == t \in {"c:", "C:"}

\* the drive and the root separator a path starts with, in parts
RootLen(p) ==
  IF p = <<>> THEN 0
  ELSE IF IsDrive(p[1])
  THEN IF Len(p) >= 2 /\ IsSep(p[2]) THEN 2 ELSE 1
  ELSE IF IsSep(p[1]) THEN 1 ELSE 0

\* the path has a root separator
IsRooted(p) == RootLen(p) > 0 /\ IsSep(p[RootLen(p)])

\* /^([a-z]:)?[\/\\]/i.test(lpath)
IsAbsoluteLink(lpath) ==
  \/ Len(lpath) >= 1 /\ IsSep(lpath[1])
  \/ Len(lpath) >= 2 /\ IsDrive(lpath[1]) /\ IsSep(lpath[2])

\* the names, "." and ".." of a path after its drive
IsPart(t) == ~IsSep(t) /\ ~IsDrive(t)
PathParts(p) == SelectSeq(p, IsPart)

\* path.normalize, the walk over the parts: "." is dropped, ".." removes
\* the name before it, or stays at the front of a relative path
RECURSIVE NormalizeParts(_, _, _)
NormalizeParts(parts, done, rooted) ==
  IF parts = <<>> THEN done
  ELSE IF Head(parts) = "." THEN NormalizeParts(Tail(parts), done, rooted)
  ELSE IF Head(parts) = ".."
  THEN IF done # <<>> /\ done[Len(done)] # ".."
       THEN NormalizeParts(Tail(parts), SubSeq(done, 1, Len(done) - 1),
                           rooted)
       ELSE IF rooted THEN NormalizeParts(Tail(parts), done, rooted)
       ELSE NormalizeParts(Tail(parts), Append(done, ".."), rooted)
  ELSE NormalizeParts(Tail(parts), Append(done, Head(parts)), rooted)

\* the parts with a backslash between them
RECURSIVE JoinParts(_)
JoinParts(parts) ==
  IF Len(parts) <= 1 THEN parts
  ELSE <<Head(parts), "\\">> \o JoinParts(Tail(parts))

\* path.normalize of the Windows flavour
path_normalize_tail(p, device, rooted, tail) ==
  IF tail = <<>> /\ ~rooted THEN device \o <<".">>
  ELSE device \o (IF rooted THEN <<"\\">> ELSE <<>>) \o JoinParts(tail)
         \o (IF tail # <<>> /\ IsSep(p[Len(p)]) THEN <<"\\">> ELSE <<>>)

path_normalize(p) ==
  IF p = <<>> THEN <<".">>
  ELSE path_normalize_tail(
         p, IF IsDrive(p[1]) THEN <<p[1]>> ELSE <<>>, IsRooted(p),
         NormalizeParts(PathParts(p), <<>>, IsRooted(p)))

\* path.join of two paths
path_join(a, b) ==
  IF a = <<>> THEN path_normalize(b)
  ELSE IF b = <<>> THEN path_normalize(a)
  ELSE path_normalize(a \o <<"\\">> \o b)

\* the place of the last separator of the path after its root, 0: none
RECURSIVE LastSep(_, _, _)
LastSep(p, i, root) ==
  IF i <= root THEN 0
  ELSE IF IsSep(p[i]) THEN i
  ELSE LastSep(p, i - 1, root)

\* path.dirname: the path before its last separator, or the root, or "."
path_dirname_at(p, root, i) ==
  IF i = 0
  THEN IF root = 0 THEN <<".">> ELSE SubSeq(p, 1, root)
  ELSE SubSeq(p, 1, i - 1)

path_dirname(p) ==
  path_dirname_at(p, RootLen(p), LastSep(p, Len(p) - 1, RootLen(p)))

\* resolveLink with the target joined to the working directory, that is
\* returned as read
resolveLink_AsRead(fpath, lpath) == lpath

\* the path a link at fpath with the target lpath leads to
resolveLink(fpath, lpath) ==
  IF IsAbsoluteLink(lpath) THEN lpath
  ELSE path_join(path_dirname(fpath), lpath)

\* the file system: a place is the sequence of the names from the root
Dirs == {<<>>, <<"d">>, <<"e">>}
PlainFiles == {<<"d", "f">>, <<"e", "f">>, <<"f">>}
LinkNodes == {<<"d", "l">>, <<"e", "m">>}
Nodes == Dirs \cup PlainFiles \cup LinkNodes

\* the place the system finds for the parts of a path walked from a place
RECURSIVE Walk(_, _)
Walk(from, parts) ==
  IF parts = <<>> THEN from
  ELSE IF Head(parts) = "." THEN Walk(from, Tail(parts))
  ELSE IF Head(parts) = ".."
  THEN Walk(IF from = <<>> THEN from ELSE SubSeq(from, 1, Len(from) - 1),
            Tail(parts))
  ELSE Walk(Append(from, Head(parts)), Tail(parts))

\* the place of a path: from the root, or from the working directory
Locate(p, dir) == Walk(IF IsRooted(p) THEN <<>> ELSE dir, PathParts(p))

\* the directory a place is in
Parent(n) == SubSeq(n, 1, Len(n) - 1)

\* the targets given to the links and the paths passed to the calls
TargetTexts ==
  { <<"f">>, <<".", "/", "f">>, <<"..", "/", "e", "/", "f">>,
    <<"/", "e", "/", "f">>, <<"C:", "\\", "d", "\\", "f">>,
    <<"..", "\\", "f">>, <<"..", "/", "e", "/", "m">>, <<"\\", "e", "\\", "m">>,
    <<"..", "/", "d", "/", "l">>, <<"x">> }

PathInputs ==
  { <<"/", "d", "/", "l">>, <<"c:", "\\", "d", "\\", "l">>, <<"l">>,
    <<"e", "/", "m">>, <<"/", "e", "/", "m">>, <<"/", "d", "/", "f">>,
    <<"/", "x">> }

WorkingDirs == {<<>>, <<"d">>, <<"e">>}

\* the links of the longest chain followed
MaxChain == 2

\* the owner of each place before any call, and the one chown sets
InitialOwner(n) ==
  <<5, 21, 9,
    CASE n = <<>> -> 1100 [] n = <<"d">> -> 1101 [] n = <<"e">> -> 1102
      [] n = <<"d", "f">> -> 1103 [] n = <<"e", "f">> -> 1104
      [] n = <<"f">> -> 1105 [] n = <<"d", "l">> -> 1106
      [] OTHER -> 1107>>
NewOwner == <<5, 21, 7, 1001>>

\* the call of stat or chown in flight: the path passed and the path after
\* the link was resolved, the places the two calls of lstat found, the
\* place the ownership was read or written at, the end of the call and the
\* stats it gave
NoStats == [isSymbolicLink |-> FALSE, uid |-> NullText]
NoLinkCall ==
  [op |-> "none", mode |-> "none", path |-> <<>>, fpath |-> <<>>,
   first |-> <<"?">>, node |-> <<"?">>, end |-> "none", stats |-> NoStats]

\* the worker threads of two calls at once
Threads == {1, 2}

NoThread == [pc |-> "idle", c |-> NoCall]

\* ------------------------------------------------------------------------
\* the wrappers of resources: AutoRes and the classes made of it

NULL == 0
INVALID_HANDLE_VALUE == -1

\* the resources that are acquired, numbered from 1
MaxHandles == 3

Resources == 1..MaxHandles
HandleValues == {NULL, INVALID_HANDLE_VALUE} \cup Resources

Wrappers == {1, 2}
WrapperKinds == {"WinHandle", "HeapMem"}

\* the value of an empty wrapper
InitialValue == NULL

\* WinHandle::IsValidValue without the test of INVALID_HANDLE_VALUE
IsValidValue_OnlyInitial(kind, handle) == handle # InitialValue

\* IsValidValue: any value but the initial one; for a handle of a kernel
\* object INVALID_HANDLE_VALUE is not valid either
IsValidValue(kind, handle) ==
  /\ handle # InitialValue
  /\ kind = "WinHandle" => handle # INVALID_HANDLE_VALUE

\* a wrapper before its constructor, and what the last operation was
NoWrapper == [phase |-> "unborn", kind |-> "none", handle |-> InitialValue]
NoOperation == [op |-> "none", w |-> 0, was |-> InitialValue]

\* DisposeInternal: CloseHandle, HeapFree: the count of the releases of the
\* handle is one more
DisposeInternal(rel, handle) == [rel EXCEPT ![handle] = @ + 1]

\* Dispose of a wrapper: the releases and the value of the wrapper after it
Dispose(w, rel) ==
  IF IsValidValue(w.kind, w.handle)
  THEN [rel |-> DisposeInternal(rel, w.handle),
        w |-> [w EXCEPT !.handle = InitialValue]]
  ELSE [rel |-> rel, w |-> w]

\* Detach of a wrapper: the value returned and the wrapper after it
Detach(w) == [result |-> w.handle, w |-> [w EXCEPT !.handle = InitialValue]]

\* ------------------------------------------------------------------------
\* the blocks of memory of one call of a resolving method: the record of
\* the call (group_t, user_t), the SID of the caller (gsid, usid) and the
\* local wrappers of resolve_name, resolve_group and resolve_user

ResolveOps == {"getgrgid", "getgrnam", "getpwnam", "getpwuid"}

\* the members of the record: the id (group.gid, user.uid), the name, the
\* password, the primary group (user.gid), the rest of the user, and the
\* array of the group members
RecordWrappers ==
  {"id", "name", "passwd", "gid", "gecos", "shell", "dir", "members"}

\* the locals of resolve_name
NameLocals == {"wname", "sid", "domain"}

\* the locals of resolve_group and resolve_user
ResolveLocals ==
  {"wide", "wdcname", "users", "lmembers", "domain8", "member",
   "fullmember", "uinfo", "pgsid"}

\* the SID the caller of the resolver owns (getgrgid_impl, getgrnam_impl,
\* getpwnam_impl, getpwuid_impl)
CallerLocals == {"psid"}

WrapperNames ==
  RecordWrappers \cup NameLocals \cup ResolveLocals \cup CallerLocals

NoBlocks ==
  [pc |-> "idle", op |-> "none", populate |-> FALSE,
   own |-> [w \in WrapperNames |-> NULL], items |-> <<>>, rel |-> <<>>,
   i |-> 0, read |-> 0, ok |-> FALSE, failed |-> FALSE]

\* the wrapper gets a value by operator =(T) or by its constructor: what
\* it held is disposed of, and it holds a new block, or NULL when the
\* allocation failed
StoreValue(r, w, handle) ==
  [r EXCEPT
     !.own[w] = handle,
     !.rel = Dispose([kind |-> "HeapMem", handle |-> r.own[w]], r.rel).rel]

StoreNew(r, w) ==
  [StoreValue(r, w, Len(r.rel) + 1) EXCEPT !.rel = Append(@, 0)]

StoreNull(r, w) == StoreValue(r, w, NULL)

\* the wrapper is an output parameter (operator &): the function called
\* writes a new block over the value of the wrapper
OutNew(r, w) ==
  [r EXCEPT !.own[w] = Len(r.rel) + 1, !.rel = Append(r.rel, 0)]

\* the destructors of the wrappers of a scope
RECURSIVE LeaveScope(_, _)
LeaveScope(r, ws) ==
  IF ws = {} THEN r
  ELSE LET w == CHOOSE x \in ws : TRUE
       IN LeaveScope(StoreNull(r, w), ws \ {w})

\* an item of the array gets a string: by operator =(T) from a conversion
\* (handle 0 when it failed) or by the moving operator = from a local
ItemStore(r, handle) ==
  [r EXCEPT
     !.items[r.i] = handle,
     !.rel = Dispose([kind |-> "HeapMem", handle |-> r.items[r.i]],
                     r.rel).rel]

ItemNew(r) == [ItemStore(r, Len(r.rel) + 1) EXCEPT !.rel = Append(@, 0)]

\* the wrapper w as a wrapper of memory
Held(r, w) == [kind |-> "HeapMem", handle |-> r.own[w]]

ItemMove(r, w) ==
  [ItemStore(r, Detach(Held(r, w)).result)
     EXCEPT !.own[w] = Detach(Held(r, w)).w.handle]

\* AutoArray::Resize: the array is disposed of, the buffer is allocated and
\* the items are constructed empty
Resize(r, newSize) ==
  [StoreNew(r, "members") EXCEPT !.items = [k \in 1..newSize |-> NULL]]

\* AutoArray::Resize when the allocation fails: the array is disposed of
\* and stays without a buffer and without items
ResizeFailed(r) == [StoreNull(r, "members") EXCEPT !.items = <<>>]

\* AutoArray::Dispose: the destructors of the items, then the buffer
RECURSIVE DisposeItems(_, _)
DisposeItems(rel, items) ==
  IF items = <<>> THEN rel
  ELSE DisposeItems(
         Dispose([kind |-> "HeapMem", handle |-> Head(items)], rel).rel,
         Tail(items))

ArrayDispose(r) ==
  IF IsValidValue("HeapMem", r.own["members"])
  THEN StoreNull([r EXCEPT !.rel = DisposeItems(r.rel, r.items),
                           !.items = <<>>], "members")
  ELSE r

\* group.gid.Dispose(), user.uid.Dispose() left out
DisposeInput_Omitted(r) == r

\* group.gid.Dispose(), user.uid.Dispose(): the text of the id is released
\* before the resolver writes the id again
DisposeInput(r) == StoreNull(r, "id")

IsGroupOp(op) == op \in {"getgrgid", "getgrnam"}

\* the steps that allocate a block and keep it in a wrapper by its
\* constructor or by operator =(T); a failure is NULL, and the function
\* returns
StoreSteps ==
  [n_wname  |-> [w |-> "wname",  next |-> "n_size",   fail |-> "exit_name"],
   n_sid    |-> [w |-> "sid",    next |-> "n_domain", fail |-> "exit_name"],
   n_domain |-> [w |-> "domain", next |-> "n_lookup", fail |-> "exit_name"],
   r_name   |-> [w |-> "wide",   next |-> "r_lookup", fail |-> "exit_res"],
   g_out    |-> [w |-> "name",   next |-> "g_passwd", fail |-> "exit_res"],
   g_passwd |-> [w |-> "passwd", next |-> "exit_ok",  fail |-> "exit_res"],
   u_out    |-> [w |-> "name",   next |-> "u_gidstr", fail |-> "exit_res"],
   u_passwd |-> [w |-> "passwd", next |-> "u_gecos",  fail |-> "exit_res"],
   u_gecos  |-> [w |-> "gecos",  next |-> "u_shell",  fail |-> "exit_res"],
   u_shell  |-> [w |-> "shell",  next |-> "u_dir",    fail |-> "exit_res"],
   u_dir    |-> [w |-> "dir",    next |-> "exit_ok",  fail |-> "exit_res"]]

\* the steps that get a block through an output parameter
OutSteps ==
  [r_id     |-> [w |-> "id",    next |-> "r_size",   fail |-> "exit_res"],
   u_gsid   |-> [w |-> "pgsid", next |-> "u_copy",   fail |-> "exit_res"],
   u_gidstr |-> [w |-> "gid",   next |-> "u_passwd", fail |-> "exit_res"]]

\* the steps that allocate nothing and may fail
CheckSteps ==
  [n_size     |-> [next |-> "n_sid",      fail |-> "exit_name"],
   r_size     |-> [next |-> "r_name",     fail |-> "exit_res"],
   r_lookup   |-> [next |-> "r_computer", fail |-> "exit_res"],
   r_computer |-> [next |-> "r_branch",   fail |-> "exit_res"],
   u_copy     |-> [next |-> "u_out",      fail |-> "exit_res"]]

\* ------------------------------------------------------------------------
\* the wrappers of arrays: AutoArray and HeapArray

\* the greatest size an array is asked to get, and the number of the
\* blocks allocated for arrays
MaxSize == 2
MaxArrayBlocks == 3

ArrayWrappers == {1, 2}

NoArray == [phase |-> "unborn", handle |-> NULL, size |-> 0]
NoArrayOperation ==
  [op |-> "none", w |-> 0, from |-> 0, was |-> NULL, moved |-> NULL,
   n |-> 0, result |-> TRUE]

\* a block of an array: the elements constructed in it, the elements
\* destructed in it, and the times it was released
NewArrayBlock(n) == [built |-> n, razed |-> 0, rel |-> 0]

\* AutoArray::Dispose: when the array is valid, the destructors of size
\* elements are called, the size becomes 0 and the block is released
AutoArray_Dispose(a, bl) ==
  IF IsValidValue("HeapArray", a.handle)
  THEN [a |-> [a EXCEPT !.handle = InitialValue, !.size = 0],
        bl |-> [bl EXCEPT ![a.handle].razed = @ + a.size,
                          ![a.handle].rel = @ + 1]]
  ELSE [a |-> a, bl |-> bl]

\* AutoArray::Resize after its Dispose(): nothing more for the size 0;
\* else the block is allocated, and when that worked the size is stored
\* and the elements are constructed
AutoArray_Allocate(d, newSize, allocated) ==
  IF newSize = 0 THEN [a |-> d.a, bl |-> d.bl, result |-> TRUE]
  ELSE IF allocated
  THEN [a |-> [d.a EXCEPT !.handle = Len(d.bl) + 1, !.size = newSize],
        bl |-> Append(d.bl, NewArrayBlock(newSize)), result |-> TRUE]
  ELSE [a |-> [d.a EXCEPT !.handle = NULL], bl |-> d.bl, result |-> FALSE]

\* AutoArray::Resize, called by HeapArray::Resize after a Dispose() of its
\* own
AutoArray_Resize(a, bl, newSize, allocated) ==
  AutoArray_Allocate(AutoArray_Dispose(a, bl), newSize, allocated)

\* the source of a move keeps its size: the moving constructor and the
\* moving assignment of AutoArray copy source.size and Detach() resets the
\* handle only
AutoArray_Detach(a) == [a EXCEPT !.handle = InitialValue]

\* ------------------------------------------------------------------------
\* the resolver of src/src/posix-win.cc: the entry points getgrgid_impl and
\* getgrnam_impl, the work queued for a callback and after_async.  The
\* steps of its resolve_name and resolve_group are not told apart here:
\* the result of the work is a code and, for a success, the gid of the
\* group

OldOps == {"getgrgid", "getgrnam"}

\* the SIDs of the groups
GroupSids ==
  {a.sid : a \in {b \in Accounts : b.use \in {"SidTypeGroup", "SidTypeAlias",
                                               "SidTypeWellKnownGroup"}}}

\* the codes the work may end with when the system fails
OldFailures == {ERROR_NONE_MAPPED, RPC_S_SERVER_UNAVAILABLE}

NoOldCall ==
  [pc |-> "idle", op |-> "none", args |-> <<>>, arg |-> EmptyText,
   operation |-> "none", gid |-> NullText, uid |-> NullText,
   error |-> ERROR_SUCCESS, sid |-> <<>>,
   out |-> [kind |-> "none", error |-> ERROR_SUCCESS, gid |-> NullText]]

\* getgrgid_sync: the text of the gid is converted to a SID, and the group
\* of the SID is resolved
getgrgid_sync(gid, failure) ==
  IF ~ConvertStringSidToSid(gid).ok
  THEN [error |-> ERROR_INVALID_SID, gid |-> gid]
  ELSE IF failure # ERROR_SUCCESS
  THEN [error |-> failure, gid |-> NullText]
  ELSE IF ConvertStringSidToSid(gid).sid \notin GroupSids
  THEN [error |-> ERROR_NONE_MAPPED, gid |-> NullText]
  ELSE [error |-> ERROR_SUCCESS,
        gid |-> ConvertSidToStringSid(ConvertStringSidToSid(gid).sid)]

\* getgrnam_sync: the name is resolved to a SID, and the group of the SID
\* is resolved
getgrnam_sync(sid, failure) ==
  IF failure # ERROR_SUCCESS
  THEN [error |-> failure, gid |-> NullText]
  ELSE [error |-> ERROR_SUCCESS, gid |-> ConvertSidToStringSid(sid)]

\* the blocking branch of an entry point: undefined for "none mapped", a
\* thrown error for another code, the record otherwise
OldReturn(r) ==
  IF r.error = ERROR_NONE_MAPPED
  THEN [kind |-> "return", error |-> ERROR_SUCCESS, gid |-> NullText]
  ELSE IF r.error # ERROR_SUCCESS
  THEN [kind |-> "throw", error |-> r.error, gid |-> NullText]
  ELSE [kind |-> "return", error |-> ERROR_SUCCESS, gid |-> r.gid]

\* the entry point made the record of a call with a callback and looks
\* whether the copy of its argument is there before it queues the work:
\* getgrgid_impl stores async_data->group.gid and looks at async_data->
\* user.uid, which nothing has set
ArgumentCopied(c) == c.uid.fmt # "NULL"

\* ------------------------------------------------------------------------
\* HeapBase::ProcessHeap() of src/src/autores.h called by several threads.
\* processHeap is a plain static of the size of a pointer: a read and a
\* write of it are single steps, and nothing orders the steps of two
\* threads

HeapThreads == {1, 2, 3}

\* the calls one thread makes
MaxCalls == 2

\* the handle GetProcessHeap() returns in this process
TheProcessHeap == 1

GetProcessHeap == TheProcessHeap

NoHeapThread == [pc |-> "idle", got |-> NULL, calls |-> 0]

NoHeap ==
  [processHeap |-> NULL, writes |-> 0,
   th |-> [t \in HeapThreads |-> NoHeapThread]]

\* ------------------------------------------------------------------------
\* state; the fields arg and asked of the worker keep the argument of the
\* call and the value of the option when the call was made

VARIABLES
  pc,                    \* "idle", "queued", "executed" or "done"
  populateGroupMembers,  \* posix.options.populateGroupMembers
  worker,                \* the call in flight: operation, arguments, result
  trace,                 \* the native calls the resolution of the call made
  out,                   \* what the caller got
  info,                  \* the native entry point called and its arguments
  fileOwner,             \* the owner SID of each file
  fileGroup,             \* the group SID of each file
  tokenHeld,             \* the privileges the token of the process has
  tokenEnabled,          \* the privileges enabled in the token
  fs,                    \* the file call in flight
  lastOK,                \* per file, the last ownership write that succeeded
  links,                 \* the target of each symbolic link
  cwd,                   \* the working directory of the process
  nodeOwner,             \* the owner SID of each place of the file system
  lk,                    \* the call of stat or chown by path in flight
  th,                    \* the two worker threads of concurrent chown calls
  wr,                    \* the wrappers of resources
  released,              \* how many times each handle value was released
  detached,              \* the handles Detach() gave to the caller
  made,                  \* the number of the resources acquired
  last,                  \* the last operation on a wrapper
  mem,                    \* the blocks of one call of a resolving method
  arr,                   \* the wrappers of arrays
  ablocks,               \* the blocks allocated for arrays
  alast,                  \* the last operation on an array
  old,                    \* the call of the resolver of src/src/posix-win.cc
  ph                     \* the static processHeap and the threads calling ProcessHeap()

posixVars == <<populateGroupMembers, worker, trace>>
fsVars == <<fileOwner, fileGroup, tokenHeld, tokenEnabled, fs, lastOK>>
linkVars == <<links, cwd, nodeOwner, lk>>
raceVars == <<th>>
resVars == <<wr, released, detached, made, last>>
memVars == <<mem>>
arrVars == <<arr, ablocks, alast>>
oldVars == <<old>>
heapVars == <<ph>>
extVars == <<linkVars, raceVars, resVars, memVars,
    arrVars,
    oldVars,
    heapVars>>
restOfLink == <<out, info, posixVars, fsVars, raceVars, resVars, memVars,
    arrVars,
    oldVars,
    heapVars>>
restOfRace ==
  <<pc, out, info, posixVars, linkVars, resVars, memVars, fileGroup,
    tokenHeld, fs, lastOK,
    arrVars,
    oldVars,
    heapVars>>
restOfRes ==
  <<pc, out, info, posixVars, fsVars, linkVars, raceVars, memVars,
    arrVars,
    oldVars,
    heapVars>>
restOfMem ==
  <<pc, out, info, posixVars, fsVars, linkVars, raceVars, resVars,
    arrVars,
    oldVars,
    heapVars>>
restOfArr ==
  <<pc, out, info, posixVars, fsVars,
    linkVars,
    raceVars,
    resVars,
    memVars,
    oldVars,
    heapVars>>
restOfOld ==
  <<pc, out, info, posixVars, fsVars,
    linkVars,
    raceVars,
    resVars,
    memVars,
    arrVars,
    heapVars>>
restOfHeap ==
  <<pc, out, info, posixVars, fsVars,
    linkVars,
    raceVars,
    resVars,
    memVars,
    arrVars,
    oldVars>>
vars == <<pc, out, info, posixVars, fsVars, extVars>>

NoWorker ==
  [op |-> "none", mode |-> "none", arg |-> <<>>, asked |-> FALSE,
   populate |-> FALSE,
   error |-> ERROR_SUCCESS, group |-> EmptyGroup, user |-> EmptyUser]

GroupOps == {"getgrgid", "getgrnam"}
UserOps == {"getpwnam", "getpwuid"}

Init ==
  /\ pc = "idle"
  /\ populateGroupMembers = TRUE
  /\ worker = NoWorker
  /\ trace = NoTrace
  /\ out = NoOutcome
  /\ info = NoInfo
  /\ fileOwner = [f \in Files |-> <<5, 21, 9, 1101>>]
  /\ fileGroup = [f \in Files |-> <<5, 21, 9, 513>>]
  /\ tokenHeld \in Tokens
  /\ tokenEnabled = {}
  /\ fs = NoCall
  /\ lastOK = [f \in Files |-> NoWrite]
  /\ links = [n \in LinkNodes |-> <<"f">>]
  /\ cwd = <<>>
  /\ nodeOwner = [n \in Nodes |-> InitialOwner(n)]
  /\ lk = NoLinkCall
  /\ th = [t \in Threads |-> NoThread]
  /\ wr = [i \in Wrappers |-> NoWrapper]
  /\ released = [h \in HandleValues |-> 0]
  /\ detached = {}
  /\ made = 0
  /\ last = NoOperation
  /\ mem = NoBlocks
  /\ arr = [i \in ArrayWrappers |-> NoArray]
  /\ ablocks = <<>>
  /\ alast = NoArrayOperation
  /\ old = NoOldCall
  /\ ph = NoHeap

\* posix.options.populateGroupMembers = b
SetOption(b) ==
  /\ pc \in {"idle", "queued", "executed"}
  /\ b # populateGroupMembers
  /\ populateGroupMembers' = b
  /\ UNCHANGED <<pc, worker, trace, out, info, fsVars, extVars>>

shall_populate_group_members == populateGroupMembers

\* the record of the call as the entry point fills it
NewWorker(op, mode, arg) ==
  [NoWorker EXCEPT
     !.op = op, !.mode = mode, !.arg = <<arg>>,
     !.asked = populateGroupMembers,
     !.populate = IF op \in GroupOps THEN shall_populate_group_members
                  ELSE FALSE,
     !.group = CASE op = "getgrgid" -> [EmptyGroup EXCEPT !.gid = LocalStrDup(arg)]
                 [] op = "getgrnam" -> [EmptyGroup EXCEPT !.name = HeapStrDup(arg)]
                 [] OTHER -> EmptyGroup,
     !.user = CASE op = "getpwuid" -> [EmptyUser EXCEPT !.uid = LocalStrDup(arg)]
                [] op = "getpwnam" -> [EmptyUser EXCEPT !.name = HeapStrDup(arg)]
                [] OTHER -> EmptyUser]

\* the worker with the result of a group or a user operation
GroupDone(w, r) ==
  [w |-> [w EXCEPT !.error = r.error, !.group = r.group], t |-> r.t]
UserDone(w, r) ==
  [w |-> [w EXCEPT !.error = r.error, !.user = r.user], t |-> r.t]

\* the work of the call: the result of the operation and what it recorded
Impl_CurrentOption(w, o) ==
  CASE w.op = "getgrgid" ->
         GroupDone(w, getgrgid_impl(w.group, populateGroupMembers, o))
    [] w.op = "getgrnam" ->
         GroupDone(w, getgrnam_impl(w.group, populateGroupMembers, o))
    [] w.op = "getpwnam" -> UserDone(w, getpwnam_impl(w.user, o))
    [] w.op = "getpwuid" -> UserDone(w, getpwuid_impl(w.user, o))

Impl(w, o) ==
  CASE w.op = "getgrgid" ->
         GroupDone(w, getgrgid_impl(w.group, w.populate, o))
    [] w.op = "getgrnam" ->
         GroupDone(w, getgrnam_impl(w.group, w.populate, o))
    [] w.op = "getpwnam" -> UserDone(w, getpwnam_impl(w.user, o))
    [] w.op = "getpwuid" -> UserDone(w, getpwuid_impl(w.user, o))

Oracles(op) == IF op \in GroupOps THEN GroupOracles ELSE UserOracles

Converted(w) ==
  IF w.op \in GroupOps THEN convert_group(w.group) ELSE convert_user(w.user)

\* the entry point of an operation: without a callback the work is done and
\* its result returned or thrown; with a callback the worker is queued
Method(op, arg, callback) ==
  /\ pc = "idle"
  /\ \E args \in ArgLists(op) :
       /\ Validate(op, args) = "ok"
       /\ callback = IsFunction(args, 2)
       /\ info' = [op |-> op, args |-> args]
  /\ IF callback
     THEN /\ worker' = NewWorker(op, "async", arg)
          /\ pc' = "queued"
          /\ UNCHANGED <<trace, out>>
     ELSE \E o \in Oracles(op) :
            \E r \in {Impl(NewWorker(op, "sync", arg), o)} :
              /\ worker' = r.w
              /\ trace' = r.t
              /\ out' \in SyncOutcomes(r.w.error, Converted(r.w))
              /\ pc' = "done"
  /\ UNCHANGED <<populateGroupMembers, fsVars, extVars>>

getgrgid(gid, callback) == Method("getgrgid", gid, callback)
getgrnam(name, callback) == Method("getgrnam", name, callback)
getpwnam(name, callback) == Method("getpwnam", name, callback)
getpwuid(uid, callback) == Method("getpwuid", uid, callback)

\* the worker thread runs the work of the queued call
Execute ==
  /\ pc = "queued"
  /\ worker.op \in GroupOps \cup UserOps
  /\ \E o \in Oracles(worker.op) :
       \E r \in {Impl(worker, o)} :
         /\ worker' = r.w
         /\ trace' = r.t
  /\ pc' = "executed"
  /\ UNCHANGED <<populateGroupMembers, out, info, fsVars, extVars>>

\* the calling thread passes the result of the work to the callback
HandleOKCallback ==
  /\ pc = "executed"
  /\ worker.op \in GroupOps \cup UserOps
  /\ out' \in CallbackOutcomes(worker.error, Converted(worker))
  /\ pc' = "done"
  /\ UNCHANGED <<populateGroupMembers, worker, trace, info, fsVars, extVars>>

\* the caller goes on to its next call
Continue ==
  /\ pc = "done"
  /\ out.kind # "crash"
  /\ pc' = "idle"
  /\ worker' = NoWorker
  /\ trace' = NoTrace
  /\ out' = NoOutcome
  /\ info' = NoInfo
  /\ fs' = NoCall
  /\ UNCHANGED <<populateGroupMembers, fileOwner, fileGroup, tokenHeld,
                 tokenEnabled, lastOK, extVars>>

\* an entry point called with arguments it does not accept: it throws a
\* TypeError and returns
ThrowTypeError(op, args) ==
  /\ pc = "idle"
  /\ Validate(op, args) # "ok"
  /\ info' = [op |-> op, args |-> args]
  /\ out' = TypeError
  /\ pc' = "done"
  /\ UNCHANGED <<posixVars, fsVars, extVars>>

NextPosix ==
  \/ \E b \in BOOLEAN : SetOption(b)
  \/ \E gid \in SidTexts, cb \in BOOLEAN : getgrgid(gid, cb)
  \/ \E name \in NameInputs, cb \in BOOLEAN : getgrnam(name, cb)
  \/ \E name \in NameInputs, cb \in BOOLEAN : getpwnam(name, cb)
  \/ \E uid \in SidTexts, cb \in BOOLEAN : getpwuid(uid, cb)
  \/ \E op \in GroupOps \cup UserOps :
       \E args \in ArgLists(op) : ThrowTypeError(op, args)
  \/ Execute
  \/ HandleOKCallback
  \/ Continue

SpecPosix == Init /\ [][NextPosix]_vars

\* ------------------------------------------------------------------------
\* file ownership: the operations

\* the record of a file call as the entry point fills it
NewCall(op, mode, path, uid, gid) ==
  [NoCall EXCEPT !.op = op, !.mode = mode, !.path = path,
                 !.uid = uid, !.gid = gid,
                 !.before = <<fileOwner[path], fileGroup[path]>>]

\* the entry point of a file operation; the descriptor of fchown and fstat
\* is one opened on the file.  An empty uid or gid next to one that is not
\* empty is tried as undefined, which the entry point turns into the empty
\* text
FsMethod(op, path, uid, gid, callback) ==
  /\ pc = "idle"
  /\ \E args \in ArgLists(Native(op)) :
       /\ Validate(Native(op), args) = "ok"
       /\ callback = IsFunction(args, MaxArgc(Native(op)))
       /\ op \in WriteOps
            => /\ args[2] = "undefined" => uid = EmptyText
               /\ args[3] = "undefined" => gid = EmptyText
               /\ uid = EmptyText /\ gid # EmptyText
                    => args[2] = "undefined"
               /\ gid = EmptyText /\ uid # EmptyText
                    => args[3] = "undefined"
       /\ info' = [op |-> Native(op), args |-> args]
  /\ fs' = NewCall(op, IF callback THEN "async" ELSE "sync", path, uid, gid)
  /\ pc' = "start"
  /\ UNCHANGED <<out, posixVars, extVars, fileOwner, fileGroup, tokenHeld,
                 tokenEnabled, lastOK>>

chown(path, uid, gid, callback) == FsMethod("chown", path, uid, gid, callback)
fchown(fd, uid, gid, callback) == FsMethod("fchown", fd, uid, gid, callback)
stat(path, callback) == FsMethod("stat", path, EmptyText, EmptyText, callback)
lstat(path, callback) == FsMethod("lstat", path, EmptyText, EmptyText, callback)
fstat(fd, callback) == FsMethod("fstat", fd, EmptyText, EmptyText, callback)

\* getown_impl and fgetown_impl: the owner and the group of the file as
\* texts, or the code of the query
getown_impl ==
  /\ pc = "start"
  /\ fs.op \in ReadOps
  /\ \E code \in QueryCodes :
       fs' = IF code # ERROR_SUCCESS
             THEN [fs EXCEPT !.error = code, !.expect = lastOK[fs.path]]
             ELSE [fs EXCEPT
                     !.error = ERROR_SUCCESS,
                     !.expect = lastOK[fs.path],
                     !.susid = ConvertSidToStringSid(fileOwner[fs.path]),
                     !.sgsid = ConvertSidToStringSid(fileGroup[fs.path])]
  /\ pc' = "returned"
  /\ UNCHANGED <<out, info, posixVars, extVars, fileOwner, fileGroup, tokenHeld,
                 tokenEnabled, lastOK>>

\* chown_impl and fchown_impl, first step: the texts that are not empty
\* are converted to SIDs
ParseSids ==
  /\ pc = "start"
  /\ fs.op \in WriteOps
  /\ LET u == IF fs.uid # EmptyText THEN ConvertStringSidToSid(fs.uid)
              ELSE [ok |-> TRUE, sid |-> <<>>]
         g == IF fs.gid # EmptyText THEN ConvertStringSidToSid(fs.gid)
              ELSE [ok |-> TRUE, sid |-> <<>>]
     IN  IF u.ok /\ g.ok
         THEN /\ fs' = [fs EXCEPT !.usid = u.sid, !.gsid = g.sid]
              /\ pc' = "parsed"
         ELSE /\ fs' = [fs EXCEPT !.error = ERROR_INVALID_SID,
                                  !.lastError = ERROR_INVALID_SID]
              /\ pc' = "returned"
  /\ UNCHANGED <<out, info, posixVars, extVars, fileOwner, fileGroup, tokenHeld,
                 tokenEnabled, lastOK>>

\* second step: takingOwhership.Enable(); an error ends the function
EnablePrivileges ==
  /\ pc = "parsed"
  /\ \E fault \in EnableFaults :
       LET r == Enable(fs, tokenEnabled, tokenHeld, fault)
       IN  /\ fs' = [r.c EXCEPT !.error = r.error]
           /\ tokenEnabled' = r.token
           /\ pc' = IF r.error # ERROR_SUCCESS THEN "unwind" ELSE "enabled"
  /\ UNCHANGED <<out, info, posixVars, extVars, fileOwner, fileGroup, tokenHeld, lastOK>>

\* third step: SetNamedSecurityInfo or SetSecurityInfo for the owner, the
\* group or both; the call returns its code and may leave the last error
\* of the thread as it was, and the function returns the last error
SetSecurity ==
  /\ pc = "enabled"
  /\ IF fs.uid = EmptyText /\ fs.gid = EmptyText
     THEN /\ pc' = "updated"
          /\ UNCHANGED <<fs, fileOwner, fileGroup, lastOK>>
     ELSE \E o \in UpdateCodes :
            LET code == IF NeededToSet \subseteq tokenEnabled
                        THEN o ELSE ERROR_ACCESS_DENIED
            IN  /\ lastOK' = [lastOK EXCEPT ![fs.path] = NoWrite]
                /\ IF code = ERROR_SUCCESS
                   THEN /\ fileOwner' =
                             IF fs.uid # EmptyText
                             THEN [fileOwner EXCEPT ![fs.path] = fs.usid]
                             ELSE fileOwner
                        /\ fileGroup' =
                             IF fs.gid # EmptyText
                             THEN [fileGroup EXCEPT ![fs.path] = fs.gsid]
                             ELSE fileGroup
                        /\ fs' = [fs EXCEPT !.updates = @ + 1,
                                             !.update = code]
                        /\ pc' = "updated"
                   ELSE /\ \E le \in {fs.lastError, code} :
                             fs' = [fs EXCEPT !.updates = @ + 1,
                                              !.update = code,
                                              !.lastError = le,
                                              !.error = le]
                        /\ pc' = "unwind"
                        /\ UNCHANGED <<fileOwner, fileGroup>>
  /\ UNCHANGED <<out, info, posixVars, extVars, tokenHeld, tokenEnabled>>

\* fourth step: takingOwhership.Disable(), its code is the result
DisablePrivileges ==
  /\ pc = "updated"
  /\ LET r == Disable(fs, tokenEnabled, tokenHeld)
     IN  /\ fs' = [r.c EXCEPT !.error = r.error]
         /\ tokenEnabled' = r.token
  /\ pc' = "unwind"
  /\ UNCHANGED <<out, info, posixVars, extVars, fileOwner, fileGroup, tokenHeld, lastOK>>

\* the end of the function: ~TakingOwhership calls Disable and drops its
\* result
Unwind ==
  /\ pc = "unwind"
  /\ LET r == Disable(fs, tokenEnabled, tokenHeld)
     IN  /\ fs' = r.c
         /\ tokenEnabled' = r.token
  /\ pc' = "returned"
  /\ UNCHANGED <<out, info, posixVars, extVars, fileOwner, fileGroup, tokenHeld, lastOK>>

\* the value a file call ends with
FsValue(c) ==
  IF c.op \in ReadOps THEN convert_ownership(c.susid, c.sgsid) ELSE Undefined

\* the end of a blocking file call: the error thrown or the value returned
FsSyncOutcome(c) ==
  IF c.error # ERROR_SUCCESS
  THEN [kind |-> "throw", error |-> c.error, val |-> Undefined]
  ELSE [kind |-> "return", error |-> ERROR_SUCCESS, val |-> FsValue(c)]

\* HandleOKCallback of getown and fgetown: (error), or (null, ownership)
FsCallbackOutcome(c) ==
  IF c.error # ERROR_SUCCESS
  THEN [kind |-> "callback", error |-> c.error, val |-> Undefined]
  ELSE [kind |-> "callback", error |-> ERROR_SUCCESS, val |-> FsValue(c)]

\* the implementation returned: the blocking form throws the error or
\* returns the value, the worker of the non-blocking form is done
FsReturn ==
  /\ pc = "returned"
  /\ IF fs.mode = "sync"
     THEN /\ out' = FsSyncOutcome(fs)
          /\ pc' = "done"
          /\ lastOK' =
               IF /\ fs.op = "chown"
                  /\ fs.error = ERROR_SUCCESS
                  /\ fs.uid # EmptyText
                  /\ fs.gid # EmptyText
               THEN [lastOK EXCEPT ![fs.path] =
                       [set |-> TRUE, uid |-> fs.uid, gid |-> fs.gid]]
               ELSE lastOK
     ELSE /\ pc' = "executed"
          /\ UNCHANGED <<out, lastOK>>
  /\ UNCHANGED <<info, posixVars, extVars, fileOwner, fileGroup, tokenHeld, tokenEnabled,
                 fs>>

\* HandleOKCallback of the file workers.  The workers of the read
\* operations call the callback.  chown and fchown wrap info[1], the uid,
\* as the callback: calling it is not defined, the process stops or the
\* call is lost
FsHandleOKCallback ==
  /\ pc = "executed"
  /\ fs.op # "none"
  /\ IF fs.op \in ReadOps
     THEN out' = FsCallbackOutcome(fs)
     ELSE \E k \in {"crash", "lost"} :
            out' = [kind |-> k, error |-> ERROR_SUCCESS, val |-> Undefined]
  /\ pc' = "done"
  /\ UNCHANGED <<info, posixVars, fsVars, extVars>>

NextFs ==
  \/ \E f \in Files, u \in UidInputs, g \in GidInputs, cb \in BOOLEAN :
       chown(f, u, g, cb)
  \/ \E f \in Files, u \in UidInputs, g \in GidInputs, cb \in BOOLEAN :
       fchown(f, u, g, cb)
  \/ \E f \in Files, cb \in BOOLEAN : stat(f, cb)
  \/ \E f \in Files, cb \in BOOLEAN : lstat(f, cb)
  \/ \E f \in Files, cb \in BOOLEAN : fstat(f, cb)
  \/ \E op \in NativeOps \ (GroupOps \cup UserOps) :
       \E args \in ArgLists(op) : ThrowTypeError(op, args)
  \/ getown_impl
  \/ ParseSids
  \/ EnablePrivileges
  \/ SetSecurity
  \/ DisablePrivileges
  \/ Unwind
  \/ FsReturn
  \/ FsHandleOKCallback
  \/ Continue

SpecFs == Init /\ [][NextFs]_vars

\* ------------------------------------------------------------------------
\* stat and chown by path, with links.  The caller may take ownership and
\* the native calls succeed on a path that exists

\* ln -s target link, and process.chdir, between the calls
symlink(n, target) ==
  /\ pc = "idle"
  /\ links[n] # target
  /\ links' = [links EXCEPT ![n] = target]
  /\ UNCHANGED <<pc, restOfLink, cwd, nodeOwner, lk>>

chdir(dir) ==
  /\ pc = "idle"
  /\ cwd # dir
  /\ cwd' = dir
  /\ UNCHANGED <<pc, restOfLink, links, nodeOwner, lk>>

\* the stats of a place with the ownership merged in
StatsOf(n) ==
  [isSymbolicLink |-> n \in LinkNodes,
   uid |-> ConvertSidToStringSid(nodeOwner[n])]

\* the path after the link at the place was resolved, if it is a link
Resolved(fpath, n) ==
  IF n \in LinkNodes THEN resolveLink(fpath, links[n]) ELSE fpath

\* a blocking call that found the places first and then node
LinkSyncCall(op, path, first, fpath, node) ==
  [NoLinkCall EXCEPT
     !.op = op, !.mode = "sync", !.path = path, !.fpath = fpath,
     !.first = first,
     !.node = IF first \in Nodes THEN node ELSE <<"?">>,
     !.end = IF first \in Nodes /\ node \in Nodes THEN "return" ELSE "throw",
     !.stats = IF op = "stat" /\ first \in Nodes /\ node \in Nodes
               THEN StatsOf(node) ELSE NoStats]

\* fs.statSync: lstatSync, readlinkSync and resolveLink for a link, then
\* lstatSync of the resolved path with the ownership of that path
statSync(path) ==
  /\ pc = "idle"
  /\ \E first \in {Locate(path, cwd)} :
       \E fpath \in {IF first \in Nodes THEN Resolved(path, first)
                     ELSE path} :
         lk' = LinkSyncCall("stat", path, first, fpath, Locate(fpath, cwd))
  /\ pc' = "done"
  /\ UNCHANGED <<restOfLink, links, cwd, nodeOwner>>

\* fs.chownSync: lstatSync, readlinkSync and resolveLink for a link, then
\* lchownSync of the resolved path
chownSync(path) ==
  /\ pc = "idle"
  /\ \E first \in {Locate(path, cwd)} :
       \E fpath \in {IF first \in Nodes THEN Resolved(path, first)
                     ELSE path} :
         \E node \in {Locate(fpath, cwd)} :
           /\ lk' = LinkSyncCall("chown", path, first, fpath, node)
           /\ nodeOwner' = IF first \in Nodes /\ node \in Nodes
                           THEN [nodeOwner EXCEPT ![node] = NewOwner]
                           ELSE nodeOwner
  /\ pc' = "done"
  /\ UNCHANGED <<restOfLink, links, cwd>>

\* fs.stat and fs.chown with a callback: fs.lstat is started
LinkAsync(op, path) ==
  /\ pc = "idle"
  /\ lk' = [NoLinkCall EXCEPT !.op = op, !.mode = "async", !.path = path,
                              !.fpath = path]
  /\ pc' = "lstat"
  /\ UNCHANGED <<restOfLink, links, cwd, nodeOwner>>

statAsync(path) == LinkAsync("stat", path)
chownAsync(path) == LinkAsync("chown", path)

\* the callback of fs.lstat: the error, readlink for a link, the ownership
\* of the path otherwise
OnLstat ==
  /\ pc = "lstat"
  /\ \E first \in {Locate(lk.fpath, cwd)} :
       /\ lk' = [lk EXCEPT !.first = first,
                           !.end = IF first \in Nodes THEN "none"
                                   ELSE "callbackError"]
       /\ pc' = IF first \notin Nodes THEN "done"
                ELSE IF first \in LinkNodes THEN "readlink"
                ELSE IF lk.op = "stat" THEN "getown" ELSE "lchown"
  /\ UNCHANGED <<restOfLink, links, cwd, nodeOwner>>

\* the callback of fs.readlink: the link is resolved, then fsExt.lstat or
\* fsExt.lchown of the resolved path
OnReadlink ==
  /\ pc = "readlink"
  /\ lk' = [lk EXCEPT !.fpath = resolveLink(lk.fpath, links[lk.first])]
  /\ pc' = IF lk.op = "stat" THEN "lstat2" ELSE "lchown"
  /\ UNCHANGED <<restOfLink, links, cwd, nodeOwner>>

\* fsExt.lstat of the resolved path: the callback of its fs.lstat
OnResolvedLstat ==
  /\ pc = "lstat2"
  /\ IF Locate(lk.fpath, cwd) \in Nodes
     THEN /\ pc' = "getown"
          /\ UNCHANGED lk
     ELSE /\ pc' = "done"
          /\ lk' = [lk EXCEPT !.end = "callbackError"]
  /\ UNCHANGED <<restOfLink, links, cwd, nodeOwner>>

\* completeStats: the callback of binding.getown
OnGetown ==
  /\ pc = "getown"
  /\ \E node \in {Locate(lk.fpath, cwd)} :
       lk' = [lk EXCEPT !.node = node, !.end = "callback",
                        !.stats = StatsOf(node)]
  /\ pc' = "done"
  /\ UNCHANGED <<restOfLink, links, cwd, nodeOwner>>

\* fsExt.lchown: binding.chown of the path with a callback; the worker
\* writes the owner, and its callback is the uid, not a function
OnLchown ==
  /\ pc = "lchown"
  /\ \E node \in {Locate(lk.fpath, cwd)}, k \in {"crash", "lost"} :
       /\ lk' = [lk EXCEPT !.node = node, !.end = k]
       /\ nodeOwner' = IF node \in Nodes
                       THEN [nodeOwner EXCEPT ![node] = NewOwner]
                       ELSE nodeOwner
  /\ pc' = "done"
  /\ UNCHANGED <<restOfLink, links, cwd>>

NextLink ==
  \/ \E n \in LinkNodes, t \in TargetTexts : symlink(n, t)
  \/ \E d \in WorkingDirs : chdir(d)
  \/ \E p \in PathInputs : statSync(p)
  \/ \E p \in PathInputs : chownSync(p)
  \/ \E p \in PathInputs : statAsync(p)
  \/ \E p \in PathInputs : chownAsync(p)
  \/ OnLstat
  \/ OnReadlink
  \/ OnResolvedLstat
  \/ OnGetown
  \/ OnLchown

SpecLink == Init /\ [][NextLink]_vars

\* ------------------------------------------------------------------------
\* two calls of chown with a callback at once: each worker runs chown_impl
\* on a thread of its own, the token is the one of the process.  No native
\* call fails by itself: the update is refused only without the privileges

\* chown(path, uid, undefined, callback) queued and its worker started on
\* a thread: the uid is converted to the SID
RaceStart(t, path, uid) ==
  /\ th[t].pc = "idle"
  /\ \A u \in Threads : th[u].c.path # path
  /\ uid # EmptyText
  /\ ConvertStringSidToSid(uid).ok
  /\ th' = [th EXCEPT
              ![t] = [pc |-> "parsed",
                      c |-> [NewCall("chown", "async", path, uid, EmptyText)
                               EXCEPT !.usid = ConvertStringSidToSid(uid).sid]]]
  /\ UNCHANGED <<restOfRace, fileOwner, tokenEnabled>>

\* takingOwhership.Enable() on the thread
RaceEnable(t) ==
  /\ th[t].pc = "parsed"
  /\ \E r \in {Enable(th[t].c, tokenEnabled, tokenHeld, "none")} :
       /\ th' = [th EXCEPT
                   ![t] = [pc |-> IF r.error # ERROR_SUCCESS
                                  THEN "unwind" ELSE "enabled",
                           c |-> [r.c EXCEPT !.error = r.error]]]
       /\ tokenEnabled' = r.token
  /\ UNCHANGED <<restOfRace, fileOwner>>

\* SetNamedSecurityInfo on the thread, with the privileges the token has
\* enabled at that time
RaceUpdate(t) ==
  /\ th[t].pc = "enabled"
  /\ IF NeededToSet \subseteq tokenEnabled
     THEN /\ fileOwner' = [fileOwner EXCEPT ![th[t].c.path] = th[t].c.usid]
          /\ th' = [th EXCEPT ![t].pc = "updated",
                              ![t].c.updates = @ + 1,
                              ![t].c.update = ERROR_SUCCESS]
     ELSE /\ \E le \in {th[t].c.lastError, ERROR_ACCESS_DENIED} :
               th' = [th EXCEPT ![t].pc = "unwind",
                                ![t].c.updates = @ + 1,
                                ![t].c.update = ERROR_ACCESS_DENIED,
                                ![t].c.lastError = le,
                                ![t].c.error = le]
          /\ UNCHANGED fileOwner
  /\ UNCHANGED <<restOfRace, tokenEnabled>>

\* takingOwhership.Disable() on the thread
RaceDisable(t) ==
  /\ th[t].pc = "updated"
  /\ \E r \in {Disable(th[t].c, tokenEnabled, tokenHeld)} :
       /\ th' = [th EXCEPT ![t] = [pc |-> "unwind",
                                   c |-> [r.c EXCEPT !.error = r.error]]]
       /\ tokenEnabled' = r.token
  /\ UNCHANGED <<restOfRace, fileOwner>>

\* the end of chown_impl on the thread: ~TakingOwhership
RaceUnwind(t) ==
  /\ th[t].pc = "unwind"
  /\ \E r \in {Disable(th[t].c, tokenEnabled, tokenHeld)} :
       /\ th' = [th EXCEPT ![t] = [pc |-> "returned", c |-> r.c]]
       /\ tokenEnabled' = r.token
  /\ UNCHANGED <<restOfRace, fileOwner>>

NextRace ==
  \/ \E t \in Threads, f \in Files, u \in UidInputs : RaceStart(t, f, u)
  \/ \E t \in Threads : RaceEnable(t)
  \/ \E t \in Threads : RaceUpdate(t)
  \/ \E t \in Threads : RaceDisable(t)
  \/ \E t \in Threads : RaceUnwind(t)

SpecRace == Init /\ [][NextRace]_vars

\* ------------------------------------------------------------------------
\* the life of the wrappers: a resource is acquired once, and a wrapper is
\* given the initial value, an invalid handle or a resource just acquired

\* the values a constructor or an assignment of a value may get, with the
\* number of the resources acquired after it
Acquired(kind) ==
  {[handle |-> NULL, made |-> made]}
    \cup (IF kind = "WinHandle"
          THEN {[handle |-> INVALID_HANDLE_VALUE, made |-> made]} ELSE {})
    \cup (IF made < MaxHandles
          THEN {[handle |-> made + 1, made |-> made + 1]} ELSE {})

\* AutoRes() and AutoRes(T handle)
Construct(i, kind) ==
  /\ wr[i].phase = "unborn"
  /\ \E a \in Acquired(kind) :
       /\ wr' = [wr EXCEPT ![i] = [phase |-> "alive", kind |-> kind,
                                   handle |-> a.handle]]
       /\ made' = a.made
  /\ last' = [op |-> "Construct", w |-> i, was |-> InitialValue]
  /\ UNCHANGED <<restOfRes, released, detached>>

\* AutoRes(AutoRes & source): the handle moves from the source
MoveConstruct(i, j) ==
  /\ wr[i].phase = "unborn"
  /\ wr[j].phase = "alive"
  /\ wr' = [wr EXCEPT ![i] = [phase |-> "alive", kind |-> wr[j].kind,
                              handle |-> Detach(wr[j]).result],
                      ![j] = Detach(wr[j]).w]
  /\ last' = [op |-> "MoveConstruct", w |-> i, was |-> InitialValue]
  /\ UNCHANGED <<restOfRes, released, detached, made>>

\* wrapper.Dispose()
DisposeCall(i) ==
  /\ wr[i].phase = "alive"
  /\ wr' = [wr EXCEPT ![i] = Dispose(wr[i], released).w]
  /\ released' = Dispose(wr[i], released).rel
  /\ last' = [op |-> "Dispose", w |-> i, was |-> wr[i].handle]
  /\ UNCHANGED <<restOfRes, detached, made>>

\* wrapper.Detach(): the caller owns the handle from now on
DetachCall(i) ==
  /\ wr[i].phase = "alive"
  /\ wr' = [wr EXCEPT ![i] = Detach(wr[i]).w]
  /\ detached' = IF Detach(wr[i]).result \in Resources
                 THEN detached \cup {Detach(wr[i]).result} ELSE detached
  /\ last' = [op |-> "Detach", w |-> i, was |-> wr[i].handle]
  /\ UNCHANGED <<restOfRes, released, made>>

\* ~AutoRes()
Destroy(i) ==
  /\ wr[i].phase = "alive"
  /\ wr' = [wr EXCEPT ![i] = [Dispose(wr[i], released).w
                                EXCEPT !.phase = "dead"]]
  /\ released' = Dispose(wr[i], released).rel
  /\ last' = [op |-> "Destroy", w |-> i, was |-> wr[i].handle]
  /\ UNCHANGED <<restOfRes, detached, made>>

\* operator =(T source): Dispose, then the value is stored
AssignValue(i) ==
  /\ wr[i].phase = "alive"
  /\ \E a \in Acquired(wr[i].kind) :
       /\ wr' = [wr EXCEPT ![i] = [Dispose(wr[i], released).w
                                     EXCEPT !.handle = a.handle]]
       /\ made' = a.made
  /\ released' = Dispose(wr[i], released).rel
  /\ last' = [op |-> "Assign", w |-> i, was |-> wr[i].handle]
  /\ UNCHANGED <<restOfRes, detached>>

\* operator =(Derived & source): Dispose, then the handle moves from the
\* source
MoveAssign(i, j) ==
  /\ i # j
  /\ wr[i].phase = "alive"
  /\ wr[j].phase = "alive"
  /\ wr[i].kind = wr[j].kind
  /\ wr' = [wr EXCEPT ![i] = [Dispose(wr[i], released).w
                                EXCEPT !.handle = Detach(wr[j]).result],
                      ![j] = Detach(wr[j]).w]
  /\ released' = Dispose(wr[i], released).rel
  /\ last' = [op |-> "MoveAssign", w |-> i, was |-> wr[i].handle]
  /\ UNCHANGED <<restOfRes, detached, made>>

NextRes ==
  \/ \E i \in Wrappers, k \in WrapperKinds : Construct(i, k)
  \/ \E i, j \in Wrappers : MoveConstruct(i, j)
  \/ \E i \in Wrappers : DisposeCall(i)
  \/ \E i \in Wrappers : DetachCall(i)
  \/ \E i \in Wrappers : Destroy(i)
  \/ \E i \in Wrappers : AssignValue(i)
  \/ \E i, j \in Wrappers : MoveAssign(i, j)

SpecRes == Init /\ [][NextRes]_vars

\* ------------------------------------------------------------------------
\* one call of a resolving method, step by step: every allocation and every
\* function of the system may fail, and the function returns from there

\* the method copies its argument to the record: group.gid or user.uid
\* (LocalStrDup), group.name or user.name (HeapStrDup)
StartResolve(op, populate) ==
  /\ mem.pc = "idle"
  /\ populate => IsGroupOp(op)
  /\ \E allocated \in BOOLEAN :
       mem' = IF allocated
              THEN [StoreNew(mem, IF op \in {"getgrgid", "getpwuid"}
                                  THEN "id" ELSE "name")
                      EXCEPT !.op = op, !.populate = populate,
                             !.pc = IF op \in {"getgrgid", "getpwuid"}
                                    THEN "impl_id" ELSE "n_wname"]
              ELSE [mem EXCEPT !.op = op, !.populate = populate,
                               !.failed = TRUE, !.pc = "returned"]
  /\ UNCHANGED restOfMem

\* getgrgid_impl, getpwuid_impl: the text of the id is converted to a SID
\* the caller owns, and it is disposed of
ImplById ==
  /\ mem.pc = "impl_id"
  /\ \E converted \in BOOLEAN :
       mem' = IF converted
              THEN [DisposeInput(OutNew(mem, "psid")) EXCEPT !.pc = "r_id"]
              ELSE [mem EXCEPT !.failed = TRUE, !.pc = "impl_exit"]
  /\ UNCHANGED restOfMem

StoreStep ==
  /\ mem.pc \in DOMAIN StoreSteps
  /\ \E allocated \in BOOLEAN :
       mem' = IF allocated
              THEN [StoreNew(mem, StoreSteps[mem.pc].w)
                      EXCEPT !.pc = StoreSteps[mem.pc].next]
              ELSE [StoreNull(mem, StoreSteps[mem.pc].w)
                      EXCEPT !.failed = TRUE,
                             !.pc = StoreSteps[mem.pc].fail]
  /\ UNCHANGED restOfMem

OutStep ==
  /\ mem.pc \in DOMAIN OutSteps
  /\ \E allocated \in BOOLEAN :
       mem' = IF allocated
              THEN [OutNew(mem, OutSteps[mem.pc].w)
                      EXCEPT !.pc = OutSteps[mem.pc].next]
              ELSE [mem EXCEPT !.failed = TRUE,
                               !.pc = OutSteps[mem.pc].fail]
  /\ UNCHANGED restOfMem

CheckStep ==
  /\ mem.pc \in DOMAIN CheckSteps
  /\ \E passed \in BOOLEAN :
       mem' = [mem EXCEPT !.failed = @ \/ ~passed,
                          !.pc = IF passed THEN CheckSteps[mem.pc].next
                                 ELSE CheckSteps[mem.pc].fail]
  /\ UNCHANGED restOfMem

\* resolve_name: the second LookupAccountNameW, and *id = sid.Detach()
NameLookup ==
  /\ mem.pc = "n_lookup"
  /\ \E found \in BOOLEAN :
       mem' = IF found
              THEN [mem EXCEPT !.own["psid"] = Detach(Held(mem, "sid")).result,
                               !.own["sid"] = Detach(Held(mem, "sid")).w.handle,
                               !.ok = TRUE, !.pc = "exit_name"]
              ELSE [mem EXCEPT !.failed = TRUE, !.pc = "exit_name"]
  /\ UNCHANGED restOfMem

\* the return of resolve_name: its locals are destroyed, and the caller
\* goes on with the SID or returns the error
ExitName ==
  /\ mem.pc = "exit_name"
  /\ mem' = [LeaveScope(mem, NameLocals)
               EXCEPT !.ok = FALSE,
                      !.pc = IF mem.ok THEN "r_id" ELSE "impl_exit"]
  /\ UNCHANGED restOfMem

\* after the name of the computer: resolve_group looks at the name None,
\* resolve_user looks for the domain controller
Branch ==
  /\ mem.pc = "r_branch"
  /\ mem' = [mem EXCEPT !.pc = IF IsGroupOp(mem.op) THEN "g_none"
                               ELSE "r_dc"]
  /\ UNCHANGED restOfMem

\* the group <computer>\None gets a new buffer for <computer>\Users
GroupNone ==
  /\ mem.pc = "g_none"
  /\ \/ mem' = [mem EXCEPT !.pc = "g_enum"]
     \/ mem' = [StoreNew(mem, "wide") EXCEPT !.pc = "g_enum"]
     \/ mem' = [StoreNull(mem, "wide")
                  EXCEPT !.failed = TRUE, !.pc = "exit_res"]
  /\ UNCHANGED restOfMem

\* the members are enumerated when the option asks for them and the SID is
\* one of a group or of an alias
GroupEnum ==
  /\ mem.pc = "g_enum"
  /\ \E grouptype \in BOOLEAN :
       mem' = [mem EXCEPT !.pc = IF mem.populate /\ grouptype THEN "r_dc"
                                 ELSE "g_out"]
  /\ UNCHANGED restOfMem

\* NetGetDCName, when the domain is not the computer (nor BUILTIN or empty
\* for a group)
FindController ==
  /\ mem.pc = "r_dc"
  /\ \E code \in {"local", "found", "notfound", "failed"} :
       mem' = CASE code = "found" ->
                     [OutNew(mem, "wdcname")
                        EXCEPT !.pc = IF IsGroupOp(mem.op) THEN "g_users"
                                      ELSE "u_info"]
              [] code = "failed" ->
                     [mem EXCEPT !.failed = TRUE, !.pc = "exit_res"]
              [] OTHER ->
                     [mem EXCEPT !.pc = IF IsGroupOp(mem.op) THEN "g_local"
                                       ELSE "u_info"]
  /\ UNCHANGED restOfMem

\* NetGroupGetUsers; access denied returns ERROR_SUCCESS
GroupUsers ==
  /\ mem.pc = "g_users"
  /\ \/ mem' = [mem EXCEPT !.pc = "exit_ok"]
     \/ mem' = [mem EXCEPT !.failed = TRUE, !.pc = "exit_res"]
     \/ \E read \in 0..MaxMembers :
          mem' = [OutNew(mem, "users")
                    EXCEPT !.read = read,
                           !.pc = IF read > 0 THEN "g_domain8"
                                  ELSE "g_endenum"]
  /\ UNCHANGED restOfMem

\* the domain as UTF-8, and group.members.Resize(read)
GroupDomain ==
  /\ mem.pc = "g_domain8"
  /\ \/ mem' = [Resize(StoreNew(mem, "domain8"), mem.read)
                  EXCEPT !.i = 1, !.pc = "g_member"]
     \/ mem' = [ResizeFailed(StoreNew(mem, "domain8"))
                  EXCEPT !.i = 1, !.failed = TRUE, !.pc = "g_member"]
     \/ mem' = [StoreNull(mem, "domain8")
                  EXCEPT !.failed = TRUE, !.pc = "exit_res"]
  /\ UNCHANGED restOfMem

\* one member of a group of a domain: the name as UTF-8 moves to the array
\* as it is, or a new buffer with the domain before the name does.  The
\* result of Resize() is not looked at: when the array has no buffer the
\* name is converted and the store goes through a null pointer, where the
\* assertion of operator [] or the access stops the process
GroupMember ==
  /\ mem.pc = "g_member"
  /\ \/ mem' = [StoreNull(mem, "member")
                  EXCEPT !.failed = TRUE, !.pc = "exit_res"]
     \/ /\ ~IsValidValue("HeapArray", mem.own["members"])
        /\ mem' = [StoreNew(mem, "member") EXCEPT !.pc = "crashed"]
     \/ /\ IsValidValue("HeapArray", mem.own["members"])
        /\ mem' = [LeaveScope(ItemMove(StoreNew(mem, "member"), "member"),
                           {"member", "fullmember"})
                  EXCEPT !.i = @ + 1,
                         !.pc = IF mem.i = mem.read THEN "g_endenum"
                                ELSE "g_member"]
     \/ /\ IsValidValue("HeapArray", mem.own["members"])
        /\ mem' = [LeaveScope(ItemMove(StoreNew(StoreNew(mem, "member"),
                                             "fullmember"), "fullmember"),
                           {"member", "fullmember"})
                  EXCEPT !.i = @ + 1,
                         !.pc = IF mem.i = mem.read THEN "g_endenum"
                                ELSE "g_member"]
     \/ mem' = [StoreNull(StoreNew(mem, "member"), "fullmember")
                  EXCEPT !.failed = TRUE, !.pc = "exit_res"]
  /\ UNCHANGED restOfMem

\* NetLocalGroupGetMembers, and group.members.Resize(read)
GroupLocal ==
  /\ mem.pc = "g_local"
  /\ \/ mem' = [mem EXCEPT !.pc = "exit_ok"]
     \/ mem' = [mem EXCEPT !.failed = TRUE, !.pc = "exit_res"]
     \/ mem' = [OutNew(mem, "lmembers") EXCEPT !.pc = "g_endenum"]
     \/ \E read \in 1..MaxMembers :
          mem' = [Resize(OutNew(mem, "lmembers"), read)
                    EXCEPT !.read = read, !.i = 1, !.pc = "g_lmember"]
     \/ \E read \in 1..MaxMembers :
          mem' = [ResizeFailed(OutNew(mem, "lmembers"))
                    EXCEPT !.read = read, !.i = 1, !.failed = TRUE,
                           !.pc = "g_lmember"]
  /\ UNCHANGED restOfMem

\* one member of a local group: the name as UTF-8 is stored in the array;
\* without a buffer of the array the process stops as above
GroupLocalMember ==
  /\ mem.pc = "g_lmember"
  /\ \/ /\ ~IsValidValue("HeapArray", mem.own["members"])
        /\ mem' = [mem EXCEPT !.pc = "crashed"]
     \/ /\ IsValidValue("HeapArray", mem.own["members"])
        /\ mem' = [ItemStore(mem, NULL)
                     EXCEPT !.failed = TRUE, !.pc = "exit_res"]
     \/ /\ IsValidValue("HeapArray", mem.own["members"])
        /\ mem' = [ItemNew(mem)
                  EXCEPT !.i = @ + 1,
                         !.pc = IF mem.i = mem.read THEN "g_endenum"
                                ELSE "g_lmember"]
  /\ UNCHANGED restOfMem

\* the end of the block that enumerates the members
EndEnum ==
  /\ mem.pc = "g_endenum"
  /\ mem' = [LeaveScope(mem, {"wdcname", "users", "lmembers", "domain8"})
               EXCEPT !.pc = "g_out"]
  /\ UNCHANGED restOfMem

\* NetUserGetInfo; access denied returns ERROR_SUCCESS
UserInfo ==
  /\ mem.pc = "u_info"
  /\ \/ mem' = [mem EXCEPT !.pc = "exit_ok"]
     \/ mem' = [mem EXCEPT !.failed = TRUE, !.pc = "exit_res"]
     \/ mem' = [OutNew(mem, "uinfo") EXCEPT !.pc = "u_gsid"]
  /\ UNCHANGED restOfMem

\* the return of resolve_group and resolve_user: the locals are destroyed
ExitResolve ==
  /\ mem.pc \in {"exit_res", "exit_ok"}
  /\ mem' = [LeaveScope(mem, ResolveLocals)
               EXCEPT !.ok = (mem.pc = "exit_ok"), !.pc = "impl_exit"]
  /\ UNCHANGED restOfMem

\* the return of getgrgid_impl, getgrnam_impl, getpwnam_impl, getpwuid_impl:
\* the SID is destroyed
ImplExit ==
  /\ mem.pc = "impl_exit"
  /\ mem' = [LeaveScope(mem, CallerLocals) EXCEPT !.pc = "returned"]
  /\ UNCHANGED restOfMem

\* the record is destroyed: at the end of the method, or with the worker
DestroyRecord ==
  /\ mem.pc = "returned"
  /\ mem' = [LeaveScope(ArrayDispose(mem), RecordWrappers \ {"members"})
               EXCEPT !.pc = "destroyed"]
  /\ UNCHANGED restOfMem

NextMem ==
  \/ \E op \in ResolveOps, populate \in BOOLEAN : StartResolve(op, populate)
  \/ ImplById
  \/ StoreStep
  \/ OutStep
  \/ CheckStep
  \/ NameLookup
  \/ ExitName
  \/ Branch
  \/ GroupNone
  \/ GroupEnum
  \/ FindController
  \/ GroupUsers
  \/ GroupDomain
  \/ GroupMember
  \/ GroupLocal
  \/ GroupLocalMember
  \/ EndEnum
  \/ UserInfo
  \/ ExitResolve
  \/ ImplExit
  \/ DestroyRecord

SpecMem == Init /\ [][NextMem]_vars

\* ------------------------------------------------------------------------
\* the life of the wrappers of arrays

\* HeapArray()
ArrayConstruct(i) ==
  /\ arr[i].phase = "unborn"
  /\ arr' = [arr EXCEPT ![i] = [phase |-> "alive", handle |-> InitialValue,
                                size |-> 0]]
  /\ alast' = [NoArrayOperation EXCEPT !.op = "Construct", !.w = i]
  /\ UNCHANGED <<restOfArr, ablocks>>

\* HeapArray(HeapArray & source)
ArrayMoveConstruct(i, j) ==
  /\ arr[i].phase = "unborn"
  /\ arr[j].phase = "alive"
  /\ arr' = [arr EXCEPT ![i] = [phase |-> "alive", handle |-> arr[j].handle,
                                size |-> arr[j].size],
                        ![j] = AutoArray_Detach(arr[j])]
  /\ alast' = [NoArrayOperation EXCEPT !.op = "MoveConstruct", !.w = i,
                                       !.from = j, !.moved = arr[j].handle,
                                       !.n = arr[j].size]
  /\ UNCHANGED <<restOfArr, ablocks>>

\* operator =(HeapArray & source)
ArrayMoveAssign(i, j) ==
  /\ i # j
  /\ arr[i].phase = "alive"
  /\ arr[j].phase = "alive"
  /\ arr' = [arr EXCEPT ![i] = [AutoArray_Dispose(arr[i], ablocks).a
                                  EXCEPT !.handle = arr[j].handle,
                                         !.size = arr[j].size],
                        ![j] = AutoArray_Detach(arr[j])]
  /\ ablocks' = AutoArray_Dispose(arr[i], ablocks).bl
  /\ alast' = [NoArrayOperation EXCEPT !.op = "MoveAssign", !.w = i,
                                       !.from = j, !.was = arr[i].handle,
                                       !.moved = arr[j].handle,
                                       !.n = arr[j].size]
  /\ UNCHANGED restOfArr

\* array.Resize(newSize)
ArrayResize(i, newSize, allocated) ==
  /\ arr[i].phase = "alive"
  /\ allocated => Len(ablocks) < MaxArrayBlocks
  /\ arr' = [arr EXCEPT ![i] = AutoArray_Resize(arr[i], ablocks, newSize,
                                                allocated).a]
  /\ ablocks' = AutoArray_Resize(arr[i], ablocks, newSize, allocated).bl
  /\ alast' = [NoArrayOperation EXCEPT
                 !.op = "Resize", !.w = i, !.was = arr[i].handle,
                 !.n = newSize,
                 !.result = AutoArray_Resize(arr[i], ablocks, newSize,
                                             allocated).result]
  /\ UNCHANGED restOfArr

\* array.Dispose()
ArrayDisposeCall(i) ==
  /\ arr[i].phase = "alive"
  /\ arr' = [arr EXCEPT ![i] = AutoArray_Dispose(arr[i], ablocks).a]
  /\ ablocks' = AutoArray_Dispose(arr[i], ablocks).bl
  /\ alast' = [NoArrayOperation EXCEPT !.op = "Dispose", !.w = i,
                                       !.was = arr[i].handle]
  /\ UNCHANGED restOfArr

\* ~AutoRes() of an array
ArrayDestroy(i) ==
  /\ arr[i].phase = "alive"
  /\ arr' = [arr EXCEPT ![i] = [AutoArray_Dispose(arr[i], ablocks).a
                                  EXCEPT !.phase = "dead"]]
  /\ ablocks' = AutoArray_Dispose(arr[i], ablocks).bl
  /\ alast' = [NoArrayOperation EXCEPT !.op = "Destroy", !.w = i,
                                       !.was = arr[i].handle]
  /\ UNCHANGED restOfArr

NextArr ==
  \/ \E i \in ArrayWrappers : ArrayConstruct(i)
  \/ \E i, j \in ArrayWrappers : ArrayMoveConstruct(i, j)
  \/ \E i, j \in ArrayWrappers : ArrayMoveAssign(i, j)
  \/ \E i \in ArrayWrappers, n \in 0..MaxSize, allocated \in BOOLEAN :
       ArrayResize(i, n, allocated)
  \/ \E i \in ArrayWrappers : ArrayDisposeCall(i)
  \/ \E i \in ArrayWrappers : ArrayDestroy(i)

SpecArr == Init /\ [][NextArr]_vars

\* ------------------------------------------------------------------------
\* the calls of the resolver of src/src/posix-win.cc

\* getgrgid_impl: the arguments are checked; without a callback the work
\* is done and its result returned or thrown; with a callback the record
\* of the call is made, and the work is queued when the copy of the
\* argument is there, else the last error of the thread is thrown
old_getgrgid(gid, args, failure, lastError) ==
  /\ old.pc = "idle"
  /\ \E c \in {[NoOldCall EXCEPT !.op = "getgrgid", !.args = args,
                                 !.arg = gid]} :
       old' = IF ValidateOne(args, "string") # "ok"
              THEN [c EXCEPT !.pc = "done", !.out.kind = "typeerror"]
              ELSE IF ~IsFunction(args, 2)
              THEN [c EXCEPT !.pc = "done",
                             !.out = OldReturn(getgrgid_sync(gid, failure))]
              ELSE IF ArgumentCopied([c EXCEPT !.gid = LocalStrDup(gid)])
              THEN [c EXCEPT !.pc = "queued", !.operation = "getpwuid",
                             !.gid = LocalStrDup(gid)]
              ELSE [c EXCEPT !.pc = "done", !.operation = "getpwuid",
                             !.out.kind = "throw", !.out.error = lastError]
  /\ UNCHANGED restOfOld

\* getgrnam_impl: the same with the name; the copy of the name is looked at
old_getgrnam(sid, args, failure) ==
  /\ old.pc = "idle"
  /\ \E c \in {[NoOldCall EXCEPT !.op = "getgrnam", !.args = args,
                                 !.sid = sid]} :
       old' = IF ValidateOne(args, "string") # "ok"
              THEN [c EXCEPT !.pc = "done", !.out.kind = "typeerror"]
              ELSE IF ~IsFunction(args, 2)
              THEN [c EXCEPT !.pc = "done",
                             !.out = OldReturn(getgrnam_sync(sid, failure))]
              ELSE [c EXCEPT !.pc = "queued", !.operation = "getgrnam"]
  /\ UNCHANGED restOfOld

\* getgrgid_async, getgrnam_async on the worker thread
old_async(failure) ==
  /\ old.pc = "queued"
  /\ \E r \in {IF old.op = "getgrgid" THEN getgrgid_sync(old.gid, failure)
               ELSE getgrnam_sync(old.sid, failure)} :
       old' = [old EXCEPT !.pc = "executed", !.error = r.error,
                          !.gid = r.gid]
  /\ UNCHANGED restOfOld

\* after_async: (null, undefined) for "none mapped", (error) for another
\* code, else (null, record) with the record of the operation stored
after_async ==
  /\ old.pc = "executed"
  /\ old' = [old EXCEPT
               !.pc = "done",
               !.out = IF old.error = ERROR_NONE_MAPPED
                       THEN [kind |-> "callback", error |-> ERROR_SUCCESS,
                             gid |-> NullText]
                       ELSE IF old.error # ERROR_SUCCESS
                       THEN [kind |-> "callback", error |-> old.error,
                             gid |-> NullText]
                       ELSE [kind |-> "callback", error |-> ERROR_SUCCESS,
                             gid |-> IF old.operation \in OldOps
                                     THEN old.gid ELSE old.uid]]
  /\ UNCHANGED restOfOld

\* the caller goes on to its next call
old_continue ==
  /\ old.pc = "done"
  /\ old' = NoOldCall
  /\ UNCHANGED restOfOld

NextOld ==
  \/ \E gid \in SidTexts, args \in ArgLists("getgrgid"),
        failure \in {ERROR_SUCCESS} \cup OldFailures,
        lastError \in {ERROR_SUCCESS} \cup OldFailures :
       old_getgrgid(gid, args, failure, lastError)
  \/ \E sid \in GroupSids, args \in ArgLists("getgrnam"),
        failure \in {ERROR_SUCCESS} \cup OldFailures :
       old_getgrnam(sid, args, failure)
  \/ \E failure \in {ERROR_SUCCESS} \cup OldFailures : old_async(failure)
  \/ after_async
  \/ old_continue

SpecOld == Init /\ [][NextOld]_vars

\* ------------------------------------------------------------------------
\* the steps of HeapBase::ProcessHeap() on one thread

\* the thread enters the function
ProcessHeap_Call(t) ==
  /\ ph.th[t].pc \in {"idle", "returned"}
  /\ ph.th[t].calls < MaxCalls
  /\ ph' = [ph EXCEPT !.th[t].pc = "test", !.th[t].got = NULL]
  /\ UNCHANGED restOfHeap

\* if (processHeap == NULL)
ProcessHeap_Test(t) ==
  /\ ph.th[t].pc = "test"
  /\ ph' = [ph EXCEPT !.th[t].pc = IF ph.processHeap = NULL
                                   THEN "init" ELSE "return"]
  /\ UNCHANGED restOfHeap

\* processHeap = GetProcessHeap();
ProcessHeap_Init(t) ==
  /\ ph.th[t].pc = "init"
  /\ ph' = [ph EXCEPT !.processHeap = GetProcessHeap,
                      !.writes = @ + 1,
                      !.th[t].pc = "return"]
  /\ UNCHANGED restOfHeap

\* return processHeap;
ProcessHeap_Return(t) ==
  /\ ph.th[t].pc = "return"
  /\ ph' = [ph EXCEPT !.th[t].pc = "returned",
                      !.th[t].got = ph.processHeap,
                      !.th[t].calls = @ + 1]
  /\ UNCHANGED restOfHeap

NextHeap ==
  \/ \E t \in HeapThreads : ProcessHeap_Call(t)
  \/ \E t \in HeapThreads : ProcessHeap_Test(t)
  \/ \E t \in HeapThreads : ProcessHeap_Init(t)
  \/ \E t \in HeapThreads : ProcessHeap_Return(t)

SpecHeap == Init /\ [][NextHeap]_vars

\* ------------------------------------------------------------------------
\* claims

\* the caller got a record of the given kind
Delivered(t) ==
  /\ out.kind \in {"return", "callback"}
  /\ out.error = ERROR_SUCCESS
  /\ out.val.t = t

\* the caller got an error with the given code
Failed(code) ==
  /\ out.kind = "throw" \/ out.kind = "callback"
  /\ out.error = code
  /\ out.error # ERROR_SUCCESS

\* "<domain>\<account>", the account alone when there is no domain
Composed(domain, account) ==
  IF domain = <<>> THEN account ELSE domain \o <<"\\">> \o account

\* C1: when a lookup step of getgrgid, getgrnam, getpwnam or getpwuid
\* reports "none mapped", the blocking form returns undefined and the
\* non-blocking form calls back with (null, undefined); no error is
\* delivered.
C1_NotFoundIsAbsent ==
  (pc = "done" /\ trace.lookup = 1332) =>
    /\ out.kind = IF worker.mode = "sync" THEN "return" ELSE "callback"
    /\ out.error = 0
    /\ out.val.t = "undefined"

C1_Witness ==
  /\ pc = "done"
  /\ trace.lookup = 1332
  /\ worker.mode = "sync"
  /\ worker.op = "getpwuid"
  /\ out.kind = "return"

\* C2: a group resolution of a SID whose reported type is none of group,
\* alias, well-known group and label, and a user resolution of a SID whose
\* reported type is not user, end in the error ERROR_BAD_ARGUMENTS: neither
\* a record nor the absent value is delivered.
C2_WrongTypeIsError ==
  (/\ pc = "done"
   /\ trace.use # "none"
   /\ \/ /\ worker.op \in {"getgrgid", "getgrnam"}
         /\ trace.use \notin {"SidTypeGroup", "SidTypeAlias",
                              "SidTypeWellKnownGroup", "SidTypeLabel"}
      \/ /\ worker.op \in {"getpwnam", "getpwuid"}
         /\ trace.use # "SidTypeUser")
    => /\ worker.error = 160
       /\ Failed(160)

C2_Witness ==
  /\ pc = "done"
  /\ worker.op = "getgrnam"
  /\ trace.use = "SidTypeUser"
  /\ out.kind = "callback"
  /\ out.error = 160

\* C3: for a caller that has all the privileges, after a blocking chown of
\* a path with an owner and a group has returned without an error, every
\* stat and lstat of the path that succeeds, blocking or not, reports that
\* owner as uid and that group as gid (compared as SIDs), as long as no
\* later call wrote the ownership of the file.
C3_OwnershipRoundTrip ==
  (/\ pc = "done"
   /\ fs.op \in {"stat", "lstat"}
   /\ tokenHeld = Privileges
   /\ fs.expect.set
   /\ fs.error = 0)
    => /\ out.kind = IF fs.mode = "sync" THEN "return" ELSE "callback"
       /\ out.val.t = "ownership"
       /\ ConvertStringSidToSid(out.val.uid).sid =
            ConvertStringSidToSid(fs.expect.uid).sid
       /\ ConvertStringSidToSid(out.val.gid).sid =
            ConvertStringSidToSid(fs.expect.gid).sid

\* C4: when the privilege adjustment of a chown or fchown call fails or
\* reports that not all privileges were assigned, the call makes no
\* security update, the owner and the group of the file stay as they were
\* when the call started, the result of the call is the error code of the
\* adjustment, and the blocking form throws it.
C4_NoPrivilegeNoWrite ==
  (/\ fs.op \in {"chown", "fchown"}
   /\ fs.adjust \in {"failed", "partial"})
    => /\ fs.updates = 0
       /\ <<fileOwner[fs.path], fileGroup[fs.path]>> = fs.before
       /\ fs.error = IF fs.adjust = "partial" THEN 1300 ELSE 5
       /\ (pc = "done" /\ fs.mode = "sync")
            => (out.kind = "throw" /\ out.error = fs.error)

C4_Witness ==
  /\ pc = "done"
  /\ fs.op = "chown"
  /\ fs.mode = "sync"
  /\ fs.adjust = "partial"
  /\ fs.uid # EmptyText
  /\ fs.usid # <<>>
  /\ fs.usid # fileOwner[fs.path]
  /\ out.kind = "throw"
  /\ out.error = 1300

\* C5: once chown or fchown has returned, whatever its outcome, no
\* privilege that the call switched on in the token of the process is
\* still enabled, the case of "not all assigned" included.
C5_PrivilegesDisabledAfterCall ==
  (/\ pc \in {"returned", "executed", "done"}
   /\ fs.op \in {"chown", "fchown"})
    => fs.turnedOn \cap tokenEnabled = {}

\* C6: when options.populateGroupMembers was false when getgrgid or getgrnam
\* was called, the record of a successful call has no members, whatever the
\* type and the scope of the group.
C6_NoMembersWhenDisabled ==
  (/\ pc = "done"
   /\ worker.op \in {"getgrgid", "getgrnam"}
   /\ ~worker.asked
   /\ worker.error = 0)
    => /\ Delivered("group")
       /\ out.val.members = <<>>

C6_Witness ==
  /\ pc = "done"
  /\ worker.op = "getgrgid"
  /\ ~worker.asked
  /\ trace.use = "SidTypeGroup"
  /\ trace.domain = <<"C", "O", "R", "P">>
  /\ Delivered("group")
  /\ out.val.members = <<>>

\* the name the alias rule asks for: "<computer>\Users" for the account
\* "None" of the domain of this computer, the reported names otherwise
NormalName(domain, account) ==
  IF Lower(account) = <<"n", "o", "n", "e">> /\ Lower(domain) = Lower(computer)
  THEN computer \o <<"\\", "U", "s", "e", "r", "s">>
  ELSE Composed(domain, account)

\* C7: the name of a returned group is "<computer>\Users" when the lookup
\* of its SID reports the account "None" in the domain of this computer
\* (both compared without case), and is built from the reported domain and
\* account unchanged in every other case.
C7_AliasNormalization ==
  (/\ pc = "done"
   /\ worker.op \in {"getgrgid", "getgrnam"}
   /\ Delivered("group"))
    => out.val.name = Val(NormalName(trace.domain, trace.account))

\* C8: when the enumeration of the members (at the domain controller or
\* local) returns access-denied, the group resolution ends as a success
\* with a record whose list of members is empty.
C8_DeniedEnumerationIsEmpty ==
  (/\ pc = "done"
   /\ worker.op \in {"getgrgid", "getgrnam"}
   /\ trace.listed = 5)
    => /\ Delivered("group")
       /\ out.val.members = <<>>

\* C9: every group resolution that ends as a success delivers a record
\* whose name is the composed "<domain>\<account>" of the resolved SID and
\* whose passwd is "x", also when the enumeration ended with access-denied
\* and when members are not populated.
C9_CompleteGroupRecord ==
  (/\ pc = "done"
   /\ worker.op \in {"getgrgid", "getgrnam"}
   /\ worker.error = 0)
    => /\ Delivered("group")
       /\ out.val.name = Val(NormalName(trace.domain, trace.account))
       /\ out.val.passwd = Val(<<"x">>)

\* C10: when the fetch of the profile of the user returns access-denied,
\* getpwnam and getpwuid end as a success with a record that has the
\* composed name and the uid, and none of gid, passwd, gecos, shell, dir.
C10_DeniedProfileIsPartial ==
  (/\ pc = "done"
   /\ worker.op \in {"getpwnam", "getpwuid"}
   /\ trace.uinfo = 5)
    => /\ Delivered("user")
       /\ out.val.name = Val(Composed(trace.domain, trace.account))
       /\ out.val.uid = [fmt |-> "S", sub |-> trace.sid]
       /\ out.val.gid.fmt = "NULL"
       /\ ~out.val.passwd.valid
       /\ ~out.val.gecos.valid
       /\ ~out.val.shell.valid
       /\ ~out.val.dir.valid

\* C11: when the discovery of the domain controller ends with "domain
\* controller not found", the resolution goes on without a server: a group
\* resolution enumerates the local group and a user resolution fetches the
\* profile locally, and the result of the call is the one that step gives;
\* when the discovery ends with any other failure, the call ends with that
\* code and neither an enumeration nor a fetch of the profile is made.
C11_DiscoveryFallback ==
  (pc = "done" /\ trace.dc \notin {-1, 0})
    => IF trace.dc = 2453
       THEN /\ ~trace.server
            /\ IF worker.op \in {"getgrgid", "getgrnam"}
               THEN /\ trace.listing = "local"
                    /\ trace.listed # -1
                    /\ worker.error =
                         IF trace.listed \in {0, 5} THEN 0 ELSE trace.listed
                    /\ trace.listed = 0 => Delivered("group")
               ELSE /\ trace.uinfo # -1
                    /\ worker.error =
                         IF trace.uinfo \in {0, 5} THEN 0 ELSE trace.uinfo
                    /\ trace.uinfo = 0 => Delivered("user")
       ELSE /\ worker.error = trace.dc
            /\ Failed(trace.dc)
            /\ trace.listed = -1
            /\ trace.uinfo = -1
            /\ trace.listing = "none"

C11_Witness ==
  /\ pc = "done"
  /\ worker.op = "getgrgid"
  /\ trace.dc = 2453
  /\ trace.domain = <<"C", "O", "R", "P">>
  /\ trace.listing = "local"
  /\ trace.listed = 0
  /\ Delivered("group")
  /\ Len(out.val.members) = 2

\* the system as the call in flight met it: no failure of a lookup, and the
\* same answers of the directory to the caller
SameSystem(o, op) ==
  /\ o.fault = "none"
  /\ trace.dc # -1 => o.dc = trace.dc
  /\ IF op \in GroupOps
     THEN trace.listed # -1 => o.enum = trace.listed
     ELSE trace.uinfo # -1 => o.uinfo = trace.uinfo

\* the ends a blocking call of the operation by id can have in that system
ById(op, id) ==
  UNION { SyncOutcomes(r.w.error, Converted(r.w)) :
            r \in { Impl(NewWorker(op, "sync", id), o) :
                      o \in {x \in Oracles(op) : SameSystem(x, op)} } }

\* the call in flight is a blocking lookup by name that returned a record
ReturnedByName(op) ==
  /\ pc = "done"
  /\ worker.op = op
  /\ worker.mode = "sync"
  /\ out.kind = "return"
  /\ out.val.t # "undefined"

\* C12: when getpwnam(n) returns a record r, getpwuid(r.uid) returns a
\* record with the same uid, and when getgrnam(n) returns a record g,
\* getgrgid(g.gid) returns a record with the same gid and the same name, in
\* the same state of the system and with the same access rights.
C12_NameIdRoundTrip ==
  /\ ReturnedByName("getgrnam")
       => \A x \in ById("getgrgid", out.val.gid) :
            /\ x.kind = "return"
            /\ x.val.t = "group"
            /\ x.val.gid = out.val.gid
            /\ x.val.name = out.val.name
  /\ ReturnedByName("getpwnam")
       => \A x \in ById("getpwuid", out.val.uid) :
            /\ x.kind = "return"
            /\ x.val.t = "user"
            /\ x.val.uid = out.val.uid

C15_UpdateCodeReported ==
  (/\ fs.op \in WriteOps
   /\ fs.update \notin {-1, 0}
   /\ pc \in {"returned", "executed", "done"})
    => /\ fs.error = fs.update
       /\ (pc = "done" /\ fs.mode = "sync")
            => out = [kind |-> "throw", error |-> fs.update,
                      val |-> Undefined]

\* the place a link leads to for the system: its target from the root when
\* the target is rooted, from the directory of the link otherwise
LinkTarget(n) ==
  IF IsRooted(links[n]) THEN Walk(<<>>, PathParts(links[n]))
  ELSE Walk(Parent(n), PathParts(links[n]))

\* the place a chain of links ends at, for chains of MaxChain links
RECURSIVE Follow(_, _)
Follow(n, fuel) ==
  IF n \in LinkNodes /\ fuel > 0 THEN Follow(LinkTarget(n), fuel - 1) ELSE n

\* C16: stat and statSync of a path that is a symbolic link follow the
\* links to the end of the chain, whatever its length: the stats and the
\* ownership are the ones of the file the chain ends at.
C16_StatFollowsChain ==
  (/\ pc = "done"
   /\ lk.op = "stat"
   /\ lk.first \in LinkNodes
   /\ Follow(lk.first, MaxChain) \in Nodes \ LinkNodes)
    => /\ lk.end \in {"return", "callback"}
       /\ lk.stats = StatsOf(Follow(lk.first, MaxChain))

C18_ConcurrentWritesSucceed ==
  (/\ tokenHeld = Privileges
   /\ \A t \in Threads : th[t].pc = "returned")
    => \A t \in Threads :
         /\ th[t].c.error = 0
         /\ th[t].c.update = 0
         /\ fileOwner[th[t].c.path] = th[t].c.usid

\* C19: a wrapper releases what it holds once.  The first of Dispose() and
\* the destruction releases a valid handle once and leaves the wrapper with
\* an invalid value, so that a later Dispose() or the destructor releases
\* nothing; an invalid value (NULL, for the handles of kernel objects also
\* INVALID_HANDLE_VALUE) is never released; a handle taken by Detach() is
\* not released by the destructor.
C19_ReleasedOnce ==
  /\ \A h \in Resources : released[h] <= 1
  /\ released[NULL] = 0
  /\ released[INVALID_HANDLE_VALUE] = 0
  /\ \A h \in detached : released[h] = 0
  /\ \A i \in Wrappers :
       wr[i].phase = "dead" => ~IsValidValue(wr[i].kind, wr[i].handle)
  /\ last.op \in {"Dispose", "Destroy"}
       => /\ ~IsValidValue(wr[last.w].kind, wr[last.w].handle)
          /\ IF last.was \in Resources
             THEN released[last.was] = 1
             ELSE \A h \in HandleValues \ Resources : released[h] = 0

C19_Witness ==
  /\ last = [op |-> "Destroy", w |-> 1, was |-> NULL]
  /\ wr[1].kind = "WinHandle"
  /\ released[1] = 1
  /\ detached = {2}
  /\ wr[2].handle = INVALID_HANDLE_VALUE

\* C20: the resolver neither leaks nor releases twice.  Wherever the
\* resolution of a name, of a group or of a user fails or returns early, no
\* block allocated during the call is ever released twice, and once the
\* call has returned and its record is destroyed, every block was released
\* once: the SID, the buffers of the names, the converted strings, the
\* buffers of the directory service, the strings of the members and the
\* SID of the primary group.
C20_NoLeakNoDoubleRelease ==
  /\ \A b \in 1..Len(mem.rel) : mem.rel[b] <= 1
  /\ mem.pc = "destroyed" => \A b \in 1..Len(mem.rel) : mem.rel[b] = 1

C20_Witness ==
  /\ mem.pc = "destroyed"
  /\ mem.op = "getgrgid"
  /\ ~mem.ok
  /\ mem.read = MaxMembers
  /\ Len(mem.rel) >= 9

\* C21: a transfer of ownership empties the source.  After the moving
\* constructor or the moving assignment from the wrapper S to the wrapper D,
\* D holds what S held, S is empty (its handle is invalid and, as it is an
\* array, its Size() is 0), the block D held before was released once, and
\* no block is ever held by two wrappers.
C21_MoveEmptiesSource ==
  /\ \A i, j \in ArrayWrappers :
       i # j /\ IsValidValue("HeapArray", arr[i].handle)
         => arr[i].handle # arr[j].handle
  /\ alast.op \in {"MoveConstruct", "MoveAssign"}
       => /\ arr[alast.w].handle = alast.moved
          /\ arr[alast.w].size = alast.n
          /\ ~IsValidValue("HeapArray", arr[alast.from].handle)
          /\ arr[alast.from].size = 0
          /\ IsValidValue("HeapArray", alast.was)
               => ablocks[alast.was].rel = 1

\* C22: Resize(n) of an array first destructs every element the array has
\* and releases the block; for n > 0 it allocates one block and constructs
\* n elements, and Size() is n; for n = 0 the array ends empty with
\* Size() = 0; when the allocation fails Resize returns false and the
\* array is empty with Size() = 0.
C22_Resize ==
  alast.op = "Resize"
    => /\ IsValidValue("HeapArray", alast.was)
            => /\ ablocks[alast.was].rel = 1
               /\ ablocks[alast.was].razed = ablocks[alast.was].built
       /\ alast.n > 0 /\ alast.result
            => /\ IsValidValue("HeapArray", arr[alast.w].handle)
               /\ arr[alast.w].handle # alast.was
               /\ arr[alast.w].size = alast.n
               /\ ablocks[arr[alast.w].handle] = NewArrayBlock(alast.n)
       /\ alast.n = 0
            => /\ alast.result
               /\ ~IsValidValue("HeapArray", arr[alast.w].handle)
               /\ arr[alast.w].size = 0
       /\ ~alast.result
            => /\ alast.n > 0
               /\ ~IsValidValue("HeapArray", arr[alast.w].handle)
               /\ arr[alast.w].size = 0

C24_CompletionToFourthArgument ==
  (/\ pc = "done"
   /\ fs.op \in WriteOps
   /\ fs.mode = "async")
    => /\ out.kind = "callback"
       /\ out.error = fs.error
       /\ out.val = Undefined

\* C25: every failure of a step of the resolution ends the call with an
\* error at that step, the failure to allocate the array of the members
\* included: after a failed step only the returns run (no member is
\* stored, no name composed, no placeholder set), and the call does not
\* end as a success.
C25_FailureEndsCall ==
  mem.failed
    => /\ mem.pc \in {"exit_name", "exit_res", "impl_exit", "returned",
                      "destroyed"}
       /\ ~mem.ok

\* C27: in the resolver of src/src/posix-win.cc, getgrgid called with the
\* text of the SID of a group and a callback does not throw on the calling
\* thread: the work is queued, and the callback gets (null, record) with
\* the record the blocking form returns for the SID.
C27_OldGetgrgidWithCallback ==
  (/\ old.op = "getgrgid"
   /\ old.args = <<"string", "function">>
   /\ old.arg.fmt = "S"
   /\ old.arg.sub \in GroupSids
   /\ old.pc \in {"queued", "executed", "done"})
    => /\ old.out.kind \in {"none", "callback"}
       /\ old.pc = "done" /\ old.out.error = ERROR_SUCCESS
            => old.out.gid = OldReturn(getgrgid_sync(old.arg, ERROR_SUCCESS)).gid

\* C26: whatever the interleaving of the first calls of ProcessHeap() on
\* several threads, the shared handle is written once only, and every
\* thread that has returned got the same handle, which is not null.
C26_ProcessHeapWrittenOnce ==
  /\ ph.writes <= 1
  /\ \A t \in HeapThreads :
       ph.th[t].pc = "returned" => ph.th[t].got = GetProcessHeap
  /\ ph.writes > 0 => ph.processHeap = GetProcessHeap

\* the record of a queued call as its entry point filled it when the
\* option had the value the call found
QueuedWith(w) ==
  [NewWorker(w.op, "async", w.arg[1])
     EXCEPT !.asked = w.asked, !.populate = w.asked]

\* the result of the group operation of a record with the value of the
\* option the call found
ResultAsAsked(w, o) ==
  IF w.op = "getgrgid"
  THEN GroupDone(w, getgrgid_impl(w.group, w.asked, o)).w
  ELSE GroupDone(w, getgrnam_impl(w.group, w.asked, o)).w

\* C28: the work of a getgrgid or getgrnam call with a callback uses the
\* value options.populateGroupMembers had when the call was made: when the
\* option was changed after the call returned, the result of the work is
\* still a result of the call with the earlier value.
C28_OptionCapturedAtCall ==
  (/\ pc \in {"executed", "done"}
   /\ worker.op \in GroupOps
   /\ worker.mode = "async"
   /\ populateGroupMembers # worker.asked)
    => \E o \in GroupOracles : ResultAsAsked(QueuedWith(worker), o) = worker

C28_Witness ==
  /\ pc = "done"
  /\ worker.op = "getgrgid"
  /\ worker.mode = "async"
  /\ worker.asked
  /\ ~populateGroupMembers
  /\ worker.error = 0
  /\ Delivered("group")
  /\ out.val.members # <<>>

\* C29: a chown or fchown call that ends as a success has called a security
\* update for the owner, the group or both, whatever uid and gid passed the
\* checks of the arguments, the empty strings too.  (Whether the update
\* that was called succeeded is the matter of C15.)
C29_SuccessAppliedAnUpdate ==
  (/\ pc \in {"returned", "done"}
   /\ fs.op \in WriteOps
   /\ fs.error = ERROR_SUCCESS)
    => fs.updates >= 1

\* the call in flight is a blocking getgrgid that returned a record
ReturnedById ==
  /\ pc = "done"
  /\ worker.op = "getgrgid"
  /\ worker.mode = "sync"
  /\ out.kind = "return"
  /\ out.val.t = "group"

\* C30: when getgrgid returns a record g, getgrnam(g.name) returns a record
\* with the gid of g, in the same state of the system; the group whose name
\* the alias rule rewrote is no exception.
C30_NameIdentifiesGroup ==
  ReturnedById
    => \A x \in ById("getgrnam", out.val.name.s) :
         /\ x.kind = "return"
         /\ x.val.t = "group"
         /\ x.val.gid = out.val.gid
====
